---- MODULE Spec2Model ----
(***************************************************************************)
(* Cross-catalog matching of BPH works against Internet Archive records:   *)
(* the embedding based matcher (scripts/matching/bph_ia_agent_match.py,    *)
(* BibliographicMatcher) and the search based matcher                      *)
(* (scripts/matching/bph_ia_search_match.py, SearchMatcher).               *)
(*                                                                         *)
(* Scores are integers: the search matcher's fuzzy title similarity is     *)
(* 0..100, the agent matcher's cosine similarity is kept in hundredths     *)
(* (0.85 is 85).                                                           *)
(*                                                                         *)
(* Intra-catalog deduplication: latin_pub_db/scripts/dedupe.py             *)
(* (deduplicate) and scripts/utils/deduplicator.py (RecordDeduplicator),   *)
(* specification SpecDedup.                                                *)
(*                                                                         *)
(* The index based fuzzy matcher scripts/bph_ia_fuzzy_match.py             *)
(* (find_matches), specification SpecFuzzy; its titles are sequences of    *)
(* characters.                                                             *)
(***************************************************************************)
EXTENDS Integers, Sequences, FiniteSets, TLC

\* ------------------------------------------------------------------ bounds
MaxScore == 100        \* title scores range over 0..MaxScore
MaxCands == 2          \* candidates of one source record (SpecMatch)
NumWorks == 3          \* source records of one run (Spec)
MaxRestarts == 1       \* interruptions of a run that are followed by a restart
MaxSaveInterval == 2   \* save_interval ranges over 1..MaxSaveInterval

\* --------------------------------------------------------------- thresholds
EMBEDDING_THRESHOLD_HIGH == 85
EMBEDDING_THRESHOLD_MEDIUM == 75
EMBEDDING_THRESHOLD_LOW == 60
FUZZY_THRESHOLD_HIGH == 90
FUZZY_THRESHOLD_MEDIUM == 80
FUZZY_THRESHOLD_LOW == 70

Matchers == {"agent", "search"}
LlmModes == {"hybrid", "full"}

HighThreshold(m) == IF m = "agent" THEN EMBEDDING_THRESHOLD_HIGH ELSE FUZZY_THRESHOLD_HIGH
MediumThreshold(m) == IF m = "agent" THEN EMBEDDING_THRESHOLD_MEDIUM ELSE FUZZY_THRESHOLD_MEDIUM
LowThreshold(m) == IF m = "agent" THEN EMBEDDING_THRESHOLD_LOW ELSE FUZZY_THRESHOLD_LOW

NoWork == 0             \* MatchResult.ia_work = None; candidates are numbered from 1
Absent == "<absent>"    \* a key the parsed JSON object does not have

VARIABLES
    matcher,          \* which matcher runs: "agent" or "search"
    use_llm,          \* self.use_llm
    llm_mode,         \* self.llm_mode
    pair,             \* SpecTier: the similarity vector of one candidate pair
    tier,             \* SpecTier: the confidence computed for it ("" before)
    called,           \* SpecMatch: match_work has run
    docs,             \* SpecMatch: the candidates match_work got (search hits / FAISS hits)
    search_errors,    \* SpecMatch: failed HTTP searches of the call
    resp,             \* SpecMatch: the oracle's answer to the call's request, NoResp if none was sent
    result,           \* SpecMatch: the MatchResult returned
    llm_evals,        \* SpecMatch: invocations of llm_evaluate by the call
    requests,         \* SpecMatch: requests that reached the oracle (messages.create)
    pc,               \* Spec: "running", "done", "aborted" (an exception left run_matching), "interrupted"
    bph_works,        \* Spec: self.bph_works, the ids of the source records loaded
    i,                \* Spec: source records the loop of run_matching has processed
    results,          \* Spec: the list run_matching builds
    last_save_idx,    \* Spec: last_save_idx of run_matching
    saved,            \* Spec: the batches handed to save_callback, in order
    db,               \* Spec: the ia_* columns of the bph_works table, by source record id
    has_callback,     \* Spec: save_callback is given (--save-to-supabase)
    save_interval,    \* Spec: save_interval
    min_confidence,   \* Spec: --min-confidence
    restarts,         \* Spec: times the program was started again after an interruption
    saved_at_restart, \* Spec: source records with a saved match when the program was last started
    computed,         \* Spec: source records match_work has run on since the program was last started
    rapidfuzz_available,  \* SpecDedup: RAPIDFUZZ_AVAILABLE of dedupe.py
    similarity_threshold, \* SpecDedup: SIMILARITY_THRESHOLD of dedupe.py for this run
    publications,     \* SpecDedup: the publications table of dedupe.py, by id
    deduplicated,     \* SpecDedup: deduplicate() has run on the table
    config,           \* SpecDedup: the 'deduplication' section of the pipeline configuration
    deduplicator,     \* SpecDedup: the pipeline's RecordDeduplicator, NoDeduplicator before it is built
    df,               \* SpecDedup: the DataFrame handed to RecordDeduplicator, by index
    groups,           \* SpecDedup: what find_duplicate_groups returned, <<>> before
    deduplicated_df,  \* SpecDedup: what deduplicate_dataframe returned, <<>> before
    ia_works,         \* SpecFuzzy: the ia_latin_texts rows bph_ia_fuzzy_match.py loaded
    bph_work,         \* SpecFuzzy: the source record find_matches is called with
    ia_indices,       \* SpecFuzzy: what build_ia_indices returned, [built |-> FALSE] before
    found_matches     \* SpecFuzzy: what find_matches returned, <<>> before

configVars == <<matcher, use_llm, llm_mode>>
tierVars == <<pair, tier>>
matchVars == <<called, docs, search_errors, resp, result, llm_evals, requests>>
runVars == <<pc, bph_works, i, results, last_save_idx, saved, db, has_callback,
             save_interval, min_confidence, restarts, saved_at_restart, computed>>
dedupVars == <<rapidfuzz_available, similarity_threshold, publications, deduplicated,
               config, deduplicator, df, groups, deduplicated_df>>
fuzzyVars == <<ia_works, bph_work, ia_indices, found_matches>>
vars == <<configVars, tierVars, matchVars, runVars, dedupVars, fuzzyVars>>

NULL == -1              \* SQL NULL / None / NaN in an integer column (ids and years are positive)
NULL_TEXT == <<"<NULL>">>   \* SQL NULL / None in a text column; a text is its sequence of words
NoDeduplicator == [built |-> FALSE]

\* The fuzzy matcher has not been started.
FuzzyIdle ==
    /\ ia_works = <<>>
    /\ bph_work = <<>>
    /\ ia_indices = [built |-> FALSE]
    /\ found_matches = <<>>

\* The deduplication programs have not been started.
DedupIdle ==
    /\ rapidfuzz_available = FALSE
    /\ similarity_threshold = 0
    /\ publications = <<>>
    /\ deduplicated = FALSE
    /\ config = <<>>
    /\ deduplicator = NoDeduplicator
    /\ df = <<>>
    /\ groups = <<>>
    /\ deduplicated_df = <<>>

\* ------------------------------------------------------------ tier policy
\* AgentConfidence with the low threshold compared by > instead of >=
AgentConfidence_StrictLow(score, author_match, year_match, llm) ==
    IF score >= EMBEDDING_THRESHOLD_HIGH /\ (author_match \/ year_match) THEN "high"
    ELSE IF score >= EMBEDDING_THRESHOLD_MEDIUM /\ author_match /\ year_match THEN "high"
    ELSE IF score >= EMBEDDING_THRESHOLD_HIGH THEN "medium"
    ELSE IF score >= EMBEDDING_THRESHOLD_MEDIUM /\ (author_match \/ year_match) THEN "medium"
    ELSE IF score > EMBEDDING_THRESHOLD_LOW THEN (IF llm THEN "needs_llm" ELSE "low")
    ELSE "low"

\* BibliographicMatcher.find_candidates, the if/elif chain on the embedding score
AgentConfidence(score, author_match, year_match, llm) ==
    IF score >= EMBEDDING_THRESHOLD_HIGH /\ (author_match \/ year_match) THEN "high"
    ELSE IF score >= EMBEDDING_THRESHOLD_MEDIUM /\ author_match /\ year_match THEN "high"
    ELSE IF score >= EMBEDDING_THRESHOLD_HIGH THEN "medium"
    ELSE IF score >= EMBEDDING_THRESHOLD_MEDIUM /\ (author_match \/ year_match) THEN "medium"
    ELSE IF score >= EMBEDDING_THRESHOLD_LOW THEN (IF llm THEN "needs_llm" ELSE "low")
    ELSE "low"

\* SearchConfidence without the branch for three agreeing signals
SearchConfidence_NoTriple(title_similarity, author_match, year_match) ==
    IF title_similarity >= FUZZY_THRESHOLD_HIGH /\ (author_match \/ year_match) THEN "high"
    ELSE IF title_similarity >= FUZZY_THRESHOLD_HIGH THEN "medium"
    ELSE IF title_similarity >= FUZZY_THRESHOLD_MEDIUM /\ (author_match \/ year_match) THEN "medium"
    ELSE IF title_similarity >= FUZZY_THRESHOLD_LOW THEN "low"
    ELSE "none"

\* SearchConfidence without the low threshold: every remaining pair is "low"
SearchConfidence_NoFloor(title_similarity, author_match, year_match) ==
    IF title_similarity >= FUZZY_THRESHOLD_HIGH /\ (author_match \/ year_match) THEN "high"
    ELSE IF title_similarity >= FUZZY_THRESHOLD_HIGH THEN "medium"
    ELSE IF title_similarity >= FUZZY_THRESHOLD_MEDIUM /\ (author_match /\ year_match) THEN "high"
    ELSE IF title_similarity >= FUZZY_THRESHOLD_MEDIUM /\ (author_match \/ year_match) THEN "medium"
    ELSE "low"

\* evaluate_candidate, the if/elif chain on title_similarity
SearchConfidence(title_similarity, author_match, year_match) ==
    IF title_similarity >= FUZZY_THRESHOLD_HIGH /\ (author_match \/ year_match) THEN "high"
    ELSE IF title_similarity >= FUZZY_THRESHOLD_HIGH THEN "medium"
    ELSE IF title_similarity >= FUZZY_THRESHOLD_MEDIUM /\ (author_match /\ year_match) THEN "high"
    ELSE IF title_similarity >= FUZZY_THRESHOLD_MEDIUM /\ (author_match \/ year_match) THEN "medium"
    ELSE IF title_similarity >= FUZZY_THRESHOLD_LOW THEN "low"
    ELSE "none"

Confidence(m, score, author_match, year_match, llm) ==
    IF m = "agent" THEN AgentConfidence(score, author_match, year_match, llm)
    ELSE SearchConfidence(score, author_match, year_match)

\* ------------------------------------------------------ candidate lists
\* Title scores on both sides of every threshold of matcher m, thresholds included.
ScoreSamples(m) == {LowThreshold(m) - 1, LowThreshold(m), MediumThreshold(m), HighThreshold(m)}

Hits(m) == [score : ScoreSamples(m), author_match : BOOLEAN, year_match : BOOLEAN]

HitLists(m, n) == UNION {[1..k -> Hits(m)] : k \in 0..n}

\* SortDesc without the sort: the candidates stay in the order they came in
SortDesc_Unsorted(s) == s

\* sorted(..., key=score, reverse=True) is stable: equal scores keep their order
RECURSIVE InsertDesc(_, _)
InsertDesc(x, s) ==
    IF s = <<>> THEN <<x>>
    ELSE IF Head(s).score >= x.score THEN <<Head(s)>> \o InsertDesc(x, Tail(s))
    ELSE <<x>> \o s

RECURSIVE SortDesc(_)
SortDesc(s) ==
    IF s = <<>> THEN <<>>
    ELSE InsertDesc(s[Len(s)], SortDesc(SubSeq(s, 1, Len(s) - 1)))

\* find_candidates / the evaluation loop of SearchMatcher.match_work: every hit gets
\* its similarity vector and confidence, then the list is sorted by title score.
Evaluate(m, hits, llm) ==
    SortDesc([k \in 1..Len(hits) |->
        [id |-> k, score |-> hits[k].score,
         author_match |-> hits[k].author_match, year_match |-> hits[k].year_match,
         confidence |-> Confidence(m, hits[k].score, hits[k].author_match,
                                   hits[k].year_match, llm)]])

\* ------------------------------------------------------- the search (IA)
\* search_internet_archive: an HTTP failure is caught and yields no documents.
search_internet_archive(outcome) == IF outcome.ok THEN outcome.docs ELSE <<>>

\* search_ia_for_work: nothing without a query, then the Latin search, then the
\* broader search when the first gave nothing.
search_ia_for_work(query_empty, first, second) ==
    IF query_empty THEN <<>>
    ELSE IF search_internet_archive(first) # <<>> THEN search_internet_archive(first)
    ELSE search_internet_archive(second)

\* ----------------------------------------------------- oracle responses
NoResp == [call |-> "none", shape |-> "none", verdict |-> Absent,
           confidence |-> Absent, reasoning |-> Absent, text |-> "<no response>"]

Verdicts == {"SAME_EDITION", "SAME_WORK", "DIFFERENT", "UNSURE"}
Confidences == {"high", "medium", "low"}

\* messages.create raised: no text came back
FailedCalls ==
    {[call |-> "raise", shape |-> "none", verdict |-> Absent, confidence |-> Absent,
      reasoning |-> Absent, text |-> e] : e \in {"Connection error.", "Request timed out."}}

\* text without a JSON object in it, or with braces that hold no valid JSON
TextResponses ==
    {[call |-> "ok", shape |-> "prose", verdict |-> Absent, confidence |-> Absent,
      reasoning |-> Absent, text |-> "<raw: these look like the same book>"],
     [call |-> "ok", shape |-> "empty_object", verdict |-> Absent, confidence |-> Absent,
      reasoning |-> Absent, text |-> "<raw: {}>"],
     [call |-> "ok", shape |-> "broken_json", verdict |-> "SAME_WORK", confidence |-> "high",
      reasoning |-> "oracle rationale", text |-> "<raw: {verdict: SAME_WORK, ...}>"],
     [call |-> "ok", shape |-> "nested_object", verdict |-> "SAME_WORK", confidence |-> "high",
      reasoning |-> "oracle rationale", text |-> "<raw: {..., \"signals\": {...}}>"]}

\* text holding one flat JSON object, any of whose three keys may be missing
ObjectResponses ==
    {[call |-> "ok", shape |-> "flat_object", verdict |-> v, confidence |-> c,
      reasoning |-> r, text |-> "<raw: {flat JSON object}>"] :
        v \in Verdicts \cup {Absent}, c \in Confidences \cup {Absent},
        r \in {"oracle rationale", Absent}}

Responses == FailedCalls \cup TextResponses \cup ObjectResponses

\* re.search(pattern, text).group() followed by json.loads. The agent matcher's
\* pattern is \{[^}]+\} (first "{" to the first "}", at least one character between),
\* the search matcher's is \{[^{}]*\} (an innermost brace pair, possibly empty).
ParseResponse(m, r) ==
    LET none == [status |-> "no_json", verdict |-> Absent, confidence |-> Absent,
                 reasoning |-> Absent]
        bad == [none EXCEPT !.status = "decode_error"]
        empty == [none EXCEPT !.status = "object"]
        flat == [status |-> "object", verdict |-> r.verdict, confidence |-> r.confidence,
                 reasoning |-> r.reasoning]
    IN  CASE r.shape = "prose" -> none
          [] r.shape = "empty_object" -> IF m = "agent" THEN none ELSE empty
          [] r.shape = "broken_json" -> bad
          [] r.shape = "nested_object" -> IF m = "agent" THEN bad ELSE empty
          [] r.shape = "flat_object" -> flat
          [] OTHER -> none

\* str.lower() on the verdict
Lower(v) ==
    CASE v = "SAME_EDITION" -> "same_edition"
      [] v = "SAME_WORK" -> "same_work"
      [] v = "DIFFERENT" -> "different"
      [] v = "UNSURE" -> "unsure"
      [] OTHER -> v

\* ---------------------------------------------------------- MatchResult
AgentResult(w, ia, is_match, confidence, match_type, reasoning, method) ==
    [bph_work |-> w, ia_work |-> ia, is_match |-> is_match, confidence |-> confidence,
     match_type |-> match_type, reasoning |-> reasoning, method |-> method]

SearchResult(w, ia, is_match, confidence, match_type, reasoning, ev, method) ==
    [bph_work |-> w, ia_work |-> ia, is_match |-> is_match, confidence |-> confidence,
     match_type |-> match_type, reasoning |-> reasoning,
     title_similarity |-> ev.score, author_match |-> ev.author_match,
     year_match |-> ev.year_match, method |-> method]

MatchResult(m, w, ia, is_match, confidence, match_type, reasoning, ev, method) ==
    IF m = "agent"
    THEN AgentResult(w, ia, is_match, confidence, match_type, reasoning, method)
    ELSE SearchResult(w, ia, is_match, confidence, match_type, reasoning, ev, method)

NoEval == [id |-> NoWork, score |-> 0, author_match |-> FALSE, year_match |-> FALSE,
           confidence |-> "none"]

\* ---------------------------------------------------------- llm_evaluate
\* The except branch of llm_evaluate: any exception raised inside the try block.
LlmError(m, w, best, message) ==
    MatchResult(m, w, NoWork, FALSE, "low", "error", <<"LLM error: ", message>>, best,
                "llm_error")

\* LlmVerdict reading the confidence with a default ("medium") instead of failing
\* on the missing key
LlmVerdict_DefaultConfidence(m, w, best, r) ==
    LET parsed == ParseResponse(m, r)
        obj == IF parsed.status = "no_json"
               THEN [verdict |-> "DIFFERENT", confidence |-> "low",
                     reasoning |-> "Could not parse response"]
               ELSE [verdict |-> parsed.verdict,
                     confidence |-> IF parsed.confidence = Absent THEN "medium"
                                    ELSE parsed.confidence,
                     reasoning |-> parsed.reasoning]
        is_match == obj.verdict \in {"SAME_EDITION", "SAME_WORK"}
    IN  IF parsed.status = "decode_error"
        THEN LlmError(m, w, best, "Expecting property name enclosed in double quotes")
        ELSE IF obj.verdict = Absent THEN LlmError(m, w, best, "'verdict'")
        ELSE IF obj.reasoning = Absent THEN LlmError(m, w, best, "'reasoning'")
        ELSE MatchResult(m, w, IF is_match THEN best.id ELSE NoWork, is_match,
                         obj.confidence, Lower(obj.verdict), <<obj.reasoning>>, best, "llm")

\* LlmVerdict keeping the raw text as the reasoning when no JSON object is found
LlmVerdict_KeepRaw(m, w, best, r) ==
    LET parsed == ParseResponse(m, r)
        obj == IF parsed.status = "no_json"
               THEN [verdict |-> "DIFFERENT", confidence |-> "low", reasoning |-> r.text]
               ELSE [verdict |-> parsed.verdict, confidence |-> parsed.confidence,
                     reasoning |-> parsed.reasoning]
        is_match == obj.verdict \in {"SAME_EDITION", "SAME_WORK"}
    IN  IF parsed.status = "decode_error"
        THEN LlmError(m, w, best, "Expecting property name enclosed in double quotes")
        ELSE IF obj.verdict = Absent THEN LlmError(m, w, best, "'verdict'")
        ELSE IF obj.confidence = Absent THEN LlmError(m, w, best, "'confidence'")
        ELSE IF obj.reasoning = Absent THEN LlmError(m, w, best, "'reasoning'")
        ELSE MatchResult(m, w, IF is_match THEN best.id ELSE NoWork, is_match,
                         obj.confidence, Lower(obj.verdict), <<obj.reasoning>>, best, "llm")

\* The body of the try block once messages.create has returned text.
LlmVerdict(m, w, best, r) ==
    LET parsed == ParseResponse(m, r)
        obj == IF parsed.status = "no_json"
               THEN [verdict |-> "DIFFERENT", confidence |-> "low",
                     reasoning |-> "Could not parse response"]
               ELSE [verdict |-> parsed.verdict, confidence |-> parsed.confidence,
                     reasoning |-> parsed.reasoning]
        is_match == obj.verdict \in {"SAME_EDITION", "SAME_WORK"}
    IN  IF parsed.status = "decode_error"
        THEN LlmError(m, w, best, "Expecting property name enclosed in double quotes")
        ELSE IF obj.verdict = Absent THEN LlmError(m, w, best, "'verdict'")
        ELSE IF obj.confidence = Absent THEN LlmError(m, w, best, "'confidence'")
        ELSE IF obj.reasoning = Absent THEN LlmError(m, w, best, "'reasoning'")
        ELSE MatchResult(m, w, IF is_match THEN best.id ELSE NoWork, is_match,
                         obj.confidence, Lower(obj.verdict), <<obj.reasoning>>, best, "llm")

\* llm_evaluate sending the request a second time when the first raised
llm_evaluate_Retry(m, w, best, r, has_client) ==
    IF ~has_client
    THEN [result |-> LlmError(m, w, best, "object has no attribute"), requests |-> 0,
          raised |-> FALSE]
    ELSE IF r.call = "raise"
    THEN [result |-> LlmError(m, w, best, r.text), requests |-> 2, raised |-> FALSE]
    ELSE [result |-> LlmVerdict(m, w, best, r), requests |-> 1, raised |-> FALSE]

\* llm_evaluate without the except branch for a request that raises
llm_evaluate_NoExcept(m, w, best, r, has_client) ==
    IF ~has_client
    THEN [result |-> LlmError(m, w, best, "object has no attribute"), requests |-> 0,
          raised |-> FALSE]
    ELSE IF r.call = "raise"
    THEN [result |-> LlmError(m, w, best, r.text), requests |-> 1, raised |-> TRUE]
    ELSE [result |-> LlmVerdict(m, w, best, r), requests |-> 1, raised |-> FALSE]

\* llm_evaluate: one request to the oracle inside try/except; without a client
\* (self.anthropic unset or None) the attribute access raises inside the try block.
\* requests counts the calls of messages.create, raised tells whether an exception
\* leaves the function.
llm_evaluate(m, w, best, r, has_client) ==
    IF ~has_client
    THEN [result |-> LlmError(m, w, best, "object has no attribute"), requests |-> 0,
          raised |-> FALSE]
    ELSE IF r.call = "raise"
    THEN [result |-> LlmError(m, w, best, r.text), requests |-> 1, raised |-> FALSE]
    ELSE [result |-> LlmVerdict(m, w, best, r), requests |-> 1, raised |-> FALSE]

\* ------------------------------------------------------------ match_work
Deterministic(res) == [result |-> res, llm_evals |-> 0, requests |-> 0, raised |-> FALSE]

Escalated(m, w, best, r, llm) ==
    LET out == llm_evaluate(m, w, best, r, llm)
    IN  [result |-> out.result, llm_evals |-> 1, requests |-> out.requests,
         raised |-> out.raised]

\* BibliographicMatcher.match_work
AgentMatchWork(w, hits, r, llm, mode) ==
    LET candidates == Evaluate("agent", hits, llm)
        best == candidates[1]
    IN  IF candidates = <<>>
        THEN Deterministic(AgentResult(w, NoWork, FALSE, "high", "no_candidates",
                 <<"No candidates found above threshold">>, "embedding"))
        ELSE IF best.confidence = "high"
        THEN Deterministic(AgentResult(w, best.id, TRUE, "high",
                 IF best.author_match /\ best.year_match THEN "same_edition" ELSE "same_work",
                 <<"High embedding score (", ToString(best.score),
                   ") with metadata confirmation">>, "embedding"))
        ELSE IF best.confidence = "medium" /\ mode # "full"
        THEN Deterministic(AgentResult(w, best.id, TRUE, "medium", "same_work",
                 <<"Good embedding score (", ToString(best.score),
                   ") without full metadata match">>, "embedding"))
        ELSE IF best.confidence = "needs_llm" \/ mode = "full"
        THEN Escalated("agent", w, best, r, llm)
        ELSE Deterministic(AgentResult(w, NoWork, FALSE, "high", "no_match",
                 <<"Best candidate score (", ToString(best.score), ") below threshold">>,
                 "embedding"))

\* SearchMatcher.match_work, after search_ia_for_work returned hits
SearchMatchWork(w, hits, r, llm, mode) ==
    LET evaluations == Evaluate("search", hits, llm)
        best == evaluations[1]
    IN  IF hits = <<>>
        THEN Deterministic(SearchResult(w, NoWork, FALSE, "high", "no_candidates",
                 <<"No candidates found in Internet Archive search">>, NoEval, "search"))
        ELSE IF best.confidence = "high"
        THEN Deterministic(SearchResult(w, best.id, TRUE, "high",
                 IF best.author_match /\ best.year_match THEN "same_edition" ELSE "same_work",
                 <<"High title similarity (", ToString(best.score), "%)">>
                     \o (IF best.author_match THEN <<", author match">> ELSE <<>>)
                     \o (IF best.year_match THEN <<", year match">> ELSE <<>>),
                 best, "search"))
        ELSE IF best.confidence = "medium"
        THEN IF llm /\ mode = "full"
             THEN Escalated("search", w, best, r, llm)
             ELSE Deterministic(SearchResult(w, best.id, TRUE, "medium", "same_work",
                      <<"Medium title similarity (", ToString(best.score), "%)">>,
                      best, "search"))
        ELSE IF best.confidence = "low" /\ llm
        THEN Escalated("search", w, best, r, llm)
        ELSE Deterministic(SearchResult(w, NoWork, FALSE, "high", "no_match",
                 <<"Best candidate too dissimilar (", ToString(best.score), "%)">>,
                 best, "search"))

match_work(m, w, hits, r, llm, mode) ==
    IF m = "agent" THEN AgentMatchWork(w, hits, r, llm, mode)
    ELSE SearchMatchWork(w, hits, r, llm, mode)

\* The oracle answers only when it is asked: the responses a call can meet.
ResponsesFor(m, w, hits, llm, mode, choices) ==
    IF match_work(m, w, hits, NoResp, llm, mode).requests > 0 THEN choices ELSE {NoResp}

\* What the IA search can return for one query: an HTTP error or a list of hits.
HttpError == [ok |-> FALSE, docs |-> <<>>]

NotSearched == [ok |-> TRUE, docs |-> <<>>]

\* What the IA search can return for one query: an HTTP error or a list of hits.
SearchOutcomes(lists) == {HttpError} \cup {[ok |-> TRUE, docs |-> h] : h \in lists}

\* ------------------------------------------------- SpecTier: one candidate
Pairs == [score : 0..MaxScore, author_match : BOOLEAN, year_match : BOOLEAN]

NoResult == AgentResult(NoWork, NoWork, FALSE, "", "", <<>>, "")

MatchIdle ==
    /\ called = FALSE
    /\ docs = <<>>
    /\ search_errors = 0
    /\ resp = NoResp
    /\ result = NoResult
    /\ llm_evals = 0
    /\ requests = 0

\* a bph_works row without a saved match
EmptyRow == [ia_identifier |-> NoWork, ia_match_confidence |-> "", ia_match_method |-> ""]

WorkIds == 1..NumWorks

RunIdle ==
    /\ pc = "idle"
    /\ bph_works = <<>>
    /\ i = 0
    /\ results = <<>>
    /\ last_save_idx = 0
    /\ saved = <<>>
    /\ db = [w \in WorkIds |-> EmptyRow]
    /\ has_callback = FALSE
    /\ save_interval = 1
    /\ min_confidence = "high"
    /\ restarts = 0
    /\ saved_at_restart = {}
    /\ computed = {}

InitTier ==
    /\ DedupIdle
    /\ FuzzyIdle
    /\ matcher \in Matchers
    /\ use_llm \in BOOLEAN
    /\ llm_mode = "hybrid"
    /\ pair \in Pairs
    /\ tier = ""
    /\ MatchIdle
    /\ RunIdle

EvaluateCandidate ==
    /\ tier = ""
    /\ tier' = Confidence(matcher, pair.score, pair.author_match, pair.year_match, use_llm)
    /\ UNCHANGED <<fuzzyVars, dedupVars, configVars, pair, matchVars, runVars>>

NextTier == EvaluateCandidate

SpecTier == InitTier /\ [][NextTier]_vars

\* ------------------------------------------ SpecMatch: one call of match_work
TierIdle ==
    /\ pair = [score |-> 0, author_match |-> FALSE, year_match |-> FALSE]
    /\ tier = ""

InitMatch ==
    /\ DedupIdle
    /\ FuzzyIdle
    /\ matcher \in Matchers
    /\ use_llm \in BOOLEAN
    /\ llm_mode \in LlmModes
    /\ TierIdle
    /\ MatchIdle
    /\ RunIdle

\* Records what one call of match_work on source record 1 did.
Called(hits, errors, r) ==
    LET out == match_work(matcher, 1, hits, r, use_llm, llm_mode)
    IN  /\ called' = TRUE
        /\ docs' = hits
        /\ search_errors' = errors
        /\ resp' = r
        /\ result' = out.result
        /\ llm_evals' = out.llm_evals
        /\ requests' = out.requests
        /\ UNCHANGED <<fuzzyVars, dedupVars, configVars, tierVars, runVars>>

\* BibliographicMatcher.match_work(bph_work): the FAISS hits are the input
AgentMatch ==
    /\ matcher = "agent"
    /\ ~called
    /\ \E hits \in HitLists("agent", MaxCands) :
         \E r \in ResponsesFor(matcher, 1, hits, use_llm, llm_mode, Responses) :
            Called(hits, 0, r)

\* SearchMatcher.match_work(bph_work): the outcomes of the IA searches are the input
SearchMatch ==
    /\ matcher = "search"
    /\ ~called
    /\ \E query_empty \in BOOLEAN :
       \E first \in (IF query_empty THEN {NotSearched} ELSE SearchOutcomes(HitLists("search", MaxCands))) :
       \E second \in (IF ~query_empty /\ search_internet_archive(first) = <<>>
                      THEN SearchOutcomes(HitLists("search", MaxCands)) ELSE {NotSearched}) :
         LET hits == search_ia_for_work(query_empty, first, second)
             errors == (IF first.ok THEN 0 ELSE 1) + (IF second.ok THEN 0 ELSE 1)
         IN  \E r \in ResponsesFor(matcher, 1, hits, use_llm, llm_mode, Responses) :
                Called(hits, errors, r)

NextMatch == AgentMatch \/ SearchMatch

SpecMatch == InitMatch /\ [][NextMatch]_vars

\* ------------------------------------------------------ Spec: run_matching
\* load_bph_works skipping the works that have a saved match
load_bph_works_Unmatched(table) ==
    SelectSeq([k \in 1..NumWorks |-> k], LAMBDA w : table[w].ia_identifier = NoWork)

\* load_bph_works: every Latin work of the year range, ordered by id; the query
\* does not look at the ia_* columns.
load_bph_works(table) == [k \in 1..NumWorks |-> k]

\* confidence_levels.get(confidence, 0)
ConfidenceLevel(c) ==
    CASE c = "high" -> 3
      [] c = "medium" -> 2
      [] c = "low" -> 1
      [] OTHER -> 0

RECURSIVE SaveRows(_, _, _, _)
\* The update loop of save_matches_to_supabase: one UPDATE ... WHERE id = bph_work.id
\* per match; an update that fails (its record is in failing) is caught and skipped.
SaveRows(table, batch, min_level, failing) ==
    IF batch = <<>> THEN table
    ELSE LET r == Head(batch)
             keep == r.is_match /\ ConfidenceLevel(r.confidence) >= min_level
                     /\ r.ia_work # NoWork /\ r.bph_work \notin failing
             next == IF keep
                     THEN [table EXCEPT ![r.bph_work] =
                              [ia_identifier |-> r.ia_work,
                               ia_match_confidence |-> r.confidence,
                               ia_match_method |-> r.method]]
                     ELSE table
         IN  SaveRows(next, Tail(batch), min_level, failing)

save_matches_to_supabase(table, batch, min_conf, failing) ==
    SaveRows(table, batch, ConfidenceLevel(min_conf), failing)

\* The oracle answers a run can meet: a failed call and the verdicts "same work"
\* and "different".
RunResponses ==
    {r \in Responses :
        \/ r.call = "raise" /\ r.text = "Request timed out."
        \/ /\ r.shape = "flat_object"
           /\ r.reasoning # Absent
           /\ <<r.verdict, r.confidence>> \in {<<"SAME_WORK", "high">>, <<"DIFFERENT", "low">>}}

\* The candidate lists of a source record inside a run: none, or one candidate of
\* each tier (below the low threshold, at it, at the high threshold without and
\* with corroboration).
RunHitLists(m) ==
    {<<>>} \cup
    {<<[score |-> s, author_match |-> FALSE, year_match |-> FALSE]>> :
        s \in {LowThreshold(m) - 1, LowThreshold(m), HighThreshold(m)}} \cup
    {<<[score |-> HighThreshold(m), author_match |-> TRUE, year_match |-> TRUE]>>}

Range(s) == {s[k] : k \in DOMAIN s}

Init ==
    /\ DedupIdle
    /\ FuzzyIdle
    /\ matcher \in Matchers
    /\ use_llm \in BOOLEAN
    /\ llm_mode \in LlmModes
    /\ TierIdle
    /\ MatchIdle
    /\ pc = "running"
    /\ bph_works = load_bph_works([w \in WorkIds |-> EmptyRow])
    /\ i = 0
    /\ results = <<>>
    /\ last_save_idx = 0
    /\ saved = <<>>
    /\ db = [w \in WorkIds |-> EmptyRow]
    /\ has_callback \in (IF matcher = "search" THEN BOOLEAN ELSE {FALSE})
    /\ save_interval \in (IF has_callback THEN 1..MaxSaveInterval ELSE {1})
    /\ min_confidence \in (IF has_callback THEN {"high", "medium"} ELSE {"high"})
    /\ restarts = 0
    /\ saved_at_restart = {}
    /\ computed = {}

\* One iteration of the for loop of run_matching on source record bph_works[i + 1],
\* whose match_work returned out (or raised): append, then the incremental save.
Iteration(out) ==
    LET w == bph_works[i + 1]
        appended == Append(results, out.result)
        batch == SubSeq(appended, last_save_idx + 1, Len(appended))
        saving == has_callback /\ (i + 1) % save_interval = 0
    IN  /\ computed' = computed \cup {w}
        /\ IF out.raised
           THEN /\ pc' = "aborted"
                /\ UNCHANGED <<i, results, last_save_idx, saved, db>>
           ELSE /\ pc' = pc
                /\ i' = i + 1
                /\ results' = appended
                /\ IF saving
                   THEN \E failing \in SUBSET {r.bph_work : r \in Range(batch)} :
                          /\ db' = save_matches_to_supabase(db, batch, min_confidence, failing)
                          /\ saved' = Append(saved, [r \in DOMAIN batch |-> batch[r].bph_work])
                          /\ last_save_idx' = i + 1
                   ELSE UNCHANGED <<last_save_idx, saved, db>>
        /\ UNCHANGED <<fuzzyVars, dedupVars, configVars, tierVars, matchVars, bph_works, has_callback,
                       save_interval, min_confidence, restarts, saved_at_restart>>

\* BibliographicMatcher.run_matching, one source record
AgentStep ==
    /\ matcher = "agent"
    /\ pc = "running"
    /\ i < Len(bph_works)
    /\ \E hits \in RunHitLists("agent") :
         \E r \in ResponsesFor(matcher, bph_works[i + 1], hits, use_llm, llm_mode, RunResponses) :
            LET out == match_work(matcher, bph_works[i + 1], hits, r, use_llm, llm_mode)
            IN  Iteration(out)

\* SearchMatcher.run_matching, one source record
SearchStep ==
    /\ matcher = "search"
    /\ pc = "running"
    /\ i < Len(bph_works)
    /\ \E first \in SearchOutcomes(RunHitLists("search")) :
       \E second \in (IF search_internet_archive(first) = <<>>
                      THEN SearchOutcomes(RunHitLists("search")) ELSE {NotSearched}) :
         LET hits == search_ia_for_work(FALSE, first, second)
         IN  \E r \in ResponsesFor(matcher, bph_works[i + 1], hits, use_llm, llm_mode,
                                   RunResponses) :
                LET out == match_work(matcher, bph_works[i + 1], hits, r, use_llm, llm_mode)
                IN  Iteration(out)

\* FinishRun without the save of the remaining results
FinishRun_NoSave ==
    /\ pc = "running"
    /\ i = Len(bph_works)
    /\ pc' = "done"
    /\ UNCHANGED <<fuzzyVars, dedupVars, configVars, tierVars, matchVars, bph_works, i, results, last_save_idx,
                   saved, db, has_callback, save_interval, min_confidence, restarts,
                   saved_at_restart, computed>>

\* The end of run_matching: the remaining results are saved and the list returned.
FinishRun ==
    /\ pc = "running"
    /\ i = Len(bph_works)
    /\ pc' = "done"
    /\ IF has_callback /\ last_save_idx < Len(results)
       THEN LET batch == SubSeq(results, last_save_idx + 1, Len(results))
            IN  \E failing \in SUBSET {r.bph_work : r \in Range(batch)} :
                  /\ db' = save_matches_to_supabase(db, batch, min_confidence, failing)
                  /\ saved' = Append(saved, [r \in DOMAIN batch |-> batch[r].bph_work])
       ELSE UNCHANGED <<saved, db>>
    /\ UNCHANGED <<fuzzyVars, dedupVars, configVars, tierVars, matchVars, bph_works, i, results, last_save_idx,
                   has_callback, save_interval, min_confidence, restarts, saved_at_restart,
                   computed>>

\* The process is interrupted between two source records: what it held in memory
\* is gone, the table keeps what was saved.
Interrupt ==
    /\ pc = "running"
    /\ restarts < MaxRestarts
    /\ pc' = "interrupted"
    /\ bph_works' = <<>>
    /\ i' = 0
    /\ results' = <<>>
    /\ last_save_idx' = 0
    /\ saved' = <<>>
    /\ UNCHANGED <<fuzzyVars, dedupVars, configVars, tierVars, matchVars, db, has_callback, save_interval,
                   min_confidence, restarts, saved_at_restart, computed>>

\* main() again with the same arguments: load_bph_works, then run_matching from
\* the first source record.
Restart ==
    /\ pc = "interrupted"
    /\ pc' = "running"
    /\ bph_works' = load_bph_works(db)
    /\ restarts' = restarts + 1
    /\ saved_at_restart' = {w \in WorkIds : db[w].ia_identifier # NoWork}
    /\ computed' = {}
    /\ UNCHANGED <<fuzzyVars, dedupVars, configVars, tierVars, matchVars, i, results, last_save_idx, saved, db,
                   has_callback, save_interval, min_confidence>>

Next == AgentStep \/ SearchStep \/ FinishRun \/ Interrupt \/ Restart

Spec == Init /\ [][Next]_vars

\* ============================================= intra-catalog deduplication
\* latin_pub_db/scripts/dedupe.py (deduplicate) and scripts/utils/deduplicator.py
\* (RecordDeduplicator).  A text is the sequence of its words.  A similarity
\* is kept as an exact fraction: base similarities in units of 1/Unit, final
\* scores as a pair [num, den].

\* ------------------------------------------------------------------ bounds
MaxRecords == 4        \* rows of the publications table / of the DataFrame

Unit == 840            \* lcm(1..8): every base similarity of two texts of at most 4 words is a whole number of 1/Unit

YEAR_TOLERANCE == 2
TITLE_PREFIX_LENGTH == 3
SIMILARITY_THRESHOLD == 85

Min2(a, b) == IF a <= b THEN a ELSE b
Max2(a, b) == IF a >= b THEN a ELSE b
Abs(a) == IF a >= 0 THEN a ELSE 0 - a
MinOf(S) == CHOOSE x \in S : \A y \in S : x <= y

\* the element of a one-element set: Only({e}) is e, evaluated once
Only(S) == CHOOSE x \in S : TRUE

\* str.split() of a normalized text, as a set
Tokens(text) == {text[k] : k \in DOMAIN text}

\* Python truthiness of a text column: neither None nor ''
Truthy(text) == text # NULL_TEXT /\ Len(text) > 0

\* The words of the texts, in alphabetical order (the order SQL sorts them in).
Vocabulary == <<"de", "historia", "historiae", "libri", "naturalis", "omnia", "opera", "plinii">>
WordRank(w) == CHOOSE k \in DOMAIN Vocabulary : Vocabulary[k] = w

\* s sorts strictly before t: word by word, a proper prefix first
RECURSIVE TextBefore(_, _)
TextBefore(s, t) ==
    IF Len(t) = 0 THEN FALSE
    ELSE IF Len(s) = 0 THEN TRUE
    ELSE IF Head(s) = Head(t) THEN TextBefore(Tail(s), Tail(t))
    ELSE WordRank(Head(s)) < WordRank(Head(t))

get_title_prefix(title_normalized) ==
    IF ~Truthy(title_normalized) THEN <<>>
    ELSE SubSeq(title_normalized, 1, Min2(TITLE_PREFIX_LENGTH, Len(title_normalized)))

\* rapidfuzz's fuzz.token_set_ratio on the word level, in 1/Unit: 100 when one
\* word set contains the other, else the best ratio among the intersection
\* and the two texts rebuilt as intersection + difference.
token_set_ratio(s, t) ==
    LET sect == Tokens(s) \cap Tokens(t)
        d1 == Tokens(s) \ Tokens(t)
        d2 == Tokens(t) \ Tokens(s)
    IN  IF Tokens(s) = {} \/ Tokens(t) = {} THEN 0
        ELSE IF sect = {} THEN 0
        ELSE IF d1 = {} \/ d2 = {} THEN 100 * Unit
        ELSE (200 * Cardinality(sect) * Unit)
                \div (2 * Cardinality(sect) + Min2(Cardinality(d1), Cardinality(d2)))

\* the fallback of similarity_score: len(t1 & t2) / len(t1 | t2) * 100, in 1/Unit
WordOverlap(s, t) ==
    IF Tokens(s) # {} /\ Tokens(t) # {}
    THEN (Cardinality(Tokens(s) \cap Tokens(t)) * 100 * Unit) \div Cardinality(Tokens(s) \cup Tokens(t))
    ELSE 0

TextSim(rapidfuzz, s, t) == IF rapidfuzz THEN token_set_ratio(s, t) ELSE WordOverlap(s, t)

\* similarity_score with the weights 0.6, 0.3, 0.1 in tenths; the value
\* returned is num / den.
similarity_score(rapidfuzz, record1, record2) ==
    LET has_title == Truthy(record1.title_normalized) /\ Truthy(record2.title_normalized)
        has_creator == Truthy(record1.creator_normalized) /\ Truthy(record2.creator_normalized)
        has_year == record1.year # NULL /\ record2.year # NULL
        title_sim == TextSim(rapidfuzz, record1.title_normalized, record2.title_normalized)
        creator_sim == TextSim(rapidfuzz, record1.creator_normalized, record2.creator_normalized)
        year_diff == Abs(record1.year - record2.year)
        year_sim == IF year_diff <= YEAR_TOLERANCE THEN (100 - year_diff * 20) * Unit ELSE 0
        score == (IF has_title THEN title_sim * 6 ELSE 0)
                 + (IF has_creator THEN creator_sim * 3 ELSE 0)
                 + (IF has_year THEN year_sim * 1 ELSE 0)
        weights_total == (IF has_title THEN 6 ELSE 0) + (IF has_creator THEN 3 ELSE 0)
                         + (IF has_year THEN 1 ELSE 0)
    IN  IF weights_total > 0
        THEN [num |-> score * 100, den |-> weights_total * Unit]
        ELSE [num |-> 0, den |-> 1]

\* score >= threshold, for a score num / den and a whole threshold
AtLeast(score, threshold) == score.num >= threshold * score.den

\* find(x) of find_clusters, with its path compression: the parent list it
\* leaves and the root it returns
RECURSIVE find(_, _)
find(parent, x) ==
    IF parent[x] # x
    THEN Only({[parent |-> [up.parent EXCEPT ![x] = up.root], root |-> up.root] :
                 up \in {find(parent, parent[x])}})
    ELSE [parent |-> parent, root |-> x]

\* union that links x to y without looking for their roots
union_NoFind(parent, x, y) == [parent EXCEPT ![x] = y]

\* union(x, y) of find_clusters: the parent list it leaves
union(parent, x, y) ==
    Only({Only({IF px.root # py.root THEN [py.parent EXCEPT ![px.root] = py.root] ELSE py.parent :
                   py \in {find(px.parent, y)}}) :
             px \in {find(parent, x)}})

\* The loop over the pairs p < q of find_clusters from the pair (p, q) on
\* (records are numbered from 1): the parent list after the unions.
RECURSIVE ComparePairs(_, _, _, _, _, _)
ComparePairs(parent, block, rapidfuzz, threshold, p, q) ==
    IF p > Len(block) THEN parent
    ELSE IF q > Len(block) THEN ComparePairs(parent, block, rapidfuzz, threshold, p + 1, p + 2)
    ELSE Only({ComparePairs(joined, block, rapidfuzz, threshold, p, q + 1) :
                 joined \in {IF AtLeast(similarity_score(rapidfuzz, block[p], block[q]), threshold)
                             THEN union(parent, p, q) ELSE parent}})

\* find_clusters: the ids of the records grouped by the root of their position
find_clusters(block, rapidfuzz, threshold) ==
    Only({{{block[k].id : k \in {n \in DOMAIN block : find(parent, n).root = root}} :
              root \in {find(parent, k).root : k \in DOMAIN block}} :
             parent \in {ComparePairs([k \in DOMAIN block |-> k], block, rapidfuzz, threshold, 1, 2)}})

\* ORDER BY year, title_normalized (rows of equal year and title in id order)
RowBefore(a, b) ==
    \/ a.year < b.year
    \/ a.year = b.year /\ TextBefore(a.title_normalized, b.title_normalized)
    \/ a.year = b.year /\ a.title_normalized = b.title_normalized /\ a.id < b.id

RECURSIVE OrderRows(_)
OrderRows(rows) ==
    IF rows = {} THEN <<>>
    ELSE Only({<<first>> \o OrderRows(rows \ {first}) :
                 first \in {r \in rows : \A q \in rows \ {r} : RowBefore(r, q)}})

\* SelectRecords without the condition on year
SelectRecords_AnyYear(table) ==
    OrderRows({table[id] : id \in {k \in DOMAIN table : table[k].title_normalized # NULL_TEXT}})

\* SELECT ... WHERE title_normalized IS NOT NULL AND year IS NOT NULL ORDER BY ...
SelectRecords(table) ==
    OrderRows({table[id] : id \in {k \in DOMAIN table :
                  table[k].title_normalized # NULL_TEXT /\ table[k].year # NULL}})

year_bucket(record) == (record.year \div 5) * 5

\* the keys one record is appended under, in the order of the appends
BlockKeys(record) ==
    LET title_prefix == get_title_prefix(record.title_normalized)
    IN  IF title_prefix = <<>> THEN <<>>
        ELSE << <<year_bucket(record), title_prefix>>,
                <<year_bucket(record) - 5, title_prefix>>,
                <<year_bucket(record) + 5, title_prefix>> >>

\* the keys of the blocks dictionary in insertion order
RECURSIVE BlockOrder(_, _)
BlockOrder(records, keys) ==
    IF records = <<>> THEN keys
    ELSE Only({BlockOrder(Tail(records), longer) :
                 longer \in {keys \o SelectSeq(BlockKeys(Head(records)),
                                               LAMBDA k : k \notin Range(keys))}})

\* blocks[key]
Block(records, key) == SelectSeq(records, LAMBDA r : key \in Range(BlockKeys(r)))

\* ProcessBlocks that keeps every cluster of more than one record
RECURSIVE ProcessBlocks_Overlapping(_, _, _, _, _)
ProcessBlocks_Overlapping(keys, records, rapidfuzz, threshold, all_clusters) ==
    IF keys = <<>> THEN all_clusters
    ELSE LET block_records == Block(records, Head(keys))
             clusters == find_clusters(block_records, rapidfuzz, threshold)
             kept == {c \in clusters : Cardinality(c) > 1}
         IN  Only({ProcessBlocks_Overlapping(Tail(keys), records, rapidfuzz, threshold, larger) :
                      larger \in {IF Len(block_records) < 2 THEN all_clusters
                                  ELSE all_clusters \cup kept}})

\* The loop over blocks.items(): a cluster of a block is kept unless one of
\* its ids is already in a kept cluster.
RECURSIVE ProcessBlocks(_, _, _, _, _)
ProcessBlocks(keys, records, rapidfuzz, threshold, all_clusters) ==
    IF keys = <<>> THEN all_clusters
    ELSE LET block_records == Block(records, Head(keys))
             processed_ids == UNION all_clusters
             clusters == find_clusters(block_records, rapidfuzz, threshold)
             kept == {c \in clusters : Cardinality(c) > 1 /\ c \cap processed_ids = {}}
         IN  Only({ProcessBlocks(Tail(keys), records, rapidfuzz, threshold, larger) :
                      larger \in {IF Len(block_records) < 2 THEN all_clusters
                                  ELSE all_clusters \cup kept}})

\* all_clusters of deduplicate()
Clusters(table, rapidfuzz, threshold) ==
    LET records == SelectRecords(table)
    IN  ProcessBlocks(BlockOrder(records, <<>>), records, rapidfuzz, threshold, {})

\* deduplicate() that gives a record outside every cluster its own id
deduplicate_Identity(table, rapidfuzz, threshold) ==
    LET all_clusters == Clusters(table, rapidfuzz, threshold)
    IN  [id \in DOMAIN table |->
            [table[id] EXCEPT !.canonical_id =
                IF \E c \in all_clusters : id \in c
                THEN MinOf(CHOOSE c \in all_clusters : id \in c)
                ELSE id]]

\* deduplicate(): reset canonical_id, cluster, give every member of a kept
\* cluster the lowest id of the cluster
deduplicate(table, rapidfuzz, threshold) ==
    LET all_clusters == Clusters(table, rapidfuzz, threshold)
    IN  [id \in DOMAIN table |->
            [table[id] EXCEPT !.canonical_id =
                IF \E c \in all_clusters : id \in c
                THEN MinOf(CHOOSE c \in all_clusters : id \in c)
                ELSE NULL]]

\* ------------------------------------------------------ RecordDeduplicator
\* the elements of a set of numbers in ascending order
RECURSIVE SortAsc(_)
SortAsc(S) ==
    IF S = {} THEN <<>>
    ELSE Only({<<least>> \o SortAsc(S \ {least}) : least \in {MinOf(S)}})

\* Thresholds and similarities of RecordDeduplicator are fractions of 1:
\* thresholds are kept in hundredths (0.7 is 70), field similarities in
\* 1/(1000 * Unit) and the overall score in 1/(10000 * Unit).
One == 1000 * Unit

stop_words == {"de", "ad", "et", "in"}
ShortWords == {"de", "ad", "et", "in", "g"}     \* the words of at most 2 letters

\* text.lower() of one word; the other steps of normalize_text leave the words used here alone
LowerWord(w) == IF w = "Historia" THEN "historia" ELSE IF w = "Plinius" THEN "plinius" ELSE w

\* normalize_text: '' for None / NaN, else lower case with single spaces
normalize_text(text) ==
    IF text = NULL_TEXT THEN <<>> ELSE [k \in DOMAIN text |-> LowerWord(text[k])]

extract_keywords(title) ==
    {w \in Tokens(normalize_text(title)) : w \notin ShortWords /\ w \notin stop_words}

\* the first letter of a word
Initial(w) ==
    CASE w \in {"gaius", "g"} -> "g"
      [] w \in {"plinius", "plinii", "p"} -> "p"
      [] w \in {"historia", "historiae"} -> "h"
      [] OTHER -> w

\* rapidfuzz's fuzz.ratio on the word level, in 1/Unit: 100 for equal texts,
\* else twice the words that agree position by position over the total length
ratio(s, t) ==
    IF s = t THEN 100 * Unit
    ELSE LET same == Cardinality({k \in 1..Min2(Len(s), Len(t)) : s[k] = t[k]})
         IN  (200 * same * Unit) \div (Len(s) + Len(t))

calculate_title_similarity(title1, title2) ==
    IF title1 = NULL_TEXT \/ title2 = NULL_TEXT THEN 0
    ELSE LET norm1 == normalize_text(title1)
             norm2 == normalize_text(title2)
             direct_similarity == ratio(norm1, norm2)
             token_similarity == token_set_ratio(norm1, norm2)
             keywords1 == extract_keywords(title1)
             keywords2 == extract_keywords(title2)
             keyword_similarity ==
                 IF keywords1 = {} /\ keywords2 = {} THEN 100 * Unit
                 ELSE IF keywords1 = {} \/ keywords2 = {} THEN 0
                 ELSE (Cardinality(keywords1 \cap keywords2) * 100 * Unit)
                         \div Cardinality(keywords1 \cup keywords2)
         IN  direct_similarity * 3 + token_similarity * 4 + keyword_similarity * 3

\* ZeroDivisionError, raised by calculate_author_similarity when both names
\* normalize to '' (matching_initials / len(words1) with no words)
Raised == 0 - 1

\* calculate_author_similarity that divides the initials bonus by the longer name
calculate_author_similarity_FirstLonger(author1, author2) ==
    IF author1 = NULL_TEXT \/ author2 = NULL_TEXT THEN 0
    ELSE LET words1 == normalize_text(author1)
             words2 == normalize_text(author2)
             surname1 == IF Len(words1) > 0 THEN words1[Len(words1)] ELSE ""
             surname2 == IF Len(words2) > 0 THEN words2[Len(words2)] ELSE ""
             similarity == ratio(words1, words2) * 10
             matching_initials ==
                 Cardinality({k \in 1..Min2(Len(words1), Len(words2)) :
                                 Initial(words1[k]) = Initial(words2[k])})
         IN  IF surname1 = surname2 /\ surname1 # "" THEN One
             ELSE IF Len(words1) = 0 THEN Raised
             ELSE Min2(One, similarity + (matching_initials * 200 * Unit) \div Len(words1))

calculate_author_similarity(author1, author2) ==
    IF author1 = NULL_TEXT \/ author2 = NULL_TEXT THEN 0
    ELSE LET words1 == normalize_text(author1)
             words2 == normalize_text(author2)
             surname1 == IF Len(words1) > 0 THEN words1[Len(words1)] ELSE ""
             surname2 == IF Len(words2) > 0 THEN words2[Len(words2)] ELSE ""
             similarity == ratio(words1, words2) * 10
             matching_initials ==
                 Cardinality({k \in 1..Min2(Len(words1), Len(words2)) :
                                 Initial(words1[k]) = Initial(words2[k])})
         IN  IF surname1 = surname2 /\ surname1 # "" THEN One
             ELSE IF Len(words1) # Len(words2) THEN Min2(One, similarity)
             ELSE IF Len(words1) = 0 THEN Raised
             ELSE Min2(One, similarity + (matching_initials * 200 * Unit) \div Len(words1))

calculate_date_similarity(date_tolerance_years, year1, year2) ==
    IF year1 = NULL \/ year2 = NULL THEN 0
    ELSE IF year1 = year2 THEN One
    ELSE LET diff == Abs(year1 - year2)
         IN  IF diff <= 1 THEN 900 * Unit
             ELSE IF diff <= 2 THEN 700 * Unit
             ELSE IF diff <= date_tolerance_years THEN 500 * Unit
             ELSE IF diff <= date_tolerance_years * 2 THEN 300 * Unit
             ELSE 100 * Unit

calculate_place_similarity(place1, place2) ==
    IF place1 = NULL_TEXT \/ place2 = NULL_TEXT THEN 0
    ELSE LET norm1 == normalize_text(place1)
             norm2 == normalize_text(place2)
             similarity == ratio(norm1, norm2) * 10
         IN  IF Tokens(norm1) # {} /\ Tokens(norm2) # {}
             THEN Max2(similarity, WordOverlap(norm1, norm2) * 10)
             ELSE similarity

\* the scores dictionary; raised when calculate_author_similarity raised
calculate_overall_similarity(self, record1, record2) ==
    LET title == calculate_title_similarity(record1.title, record2.title)
        author == calculate_author_similarity(record1.author, record2.author)
        date == calculate_date_similarity(self.date_tolerance_years,
                                          record1.publication_year, record2.publication_year)
        place == calculate_place_similarity(record1.publication_place, record2.publication_place)
    IN  IF author = Raised
        THEN [raised |-> TRUE, title |-> title, author |-> 0, date |-> 0, place |-> 0, overall |-> 0]
        ELSE [raised |-> FALSE, title |-> title, author |-> author, date |-> date, place |-> place,
              overall |-> title * self.weights.title + author * self.weights.author
                          + date * self.weights.date + place * self.weights.place]

\* is_duplicate_pair: [raised, is_duplicate]
is_duplicate_pair(self, record1, record2) ==
    LET scores == calculate_overall_similarity(self, record1, record2)
        title_pass == scores.title * 100 >= self.title_similarity_threshold * One
        author_pass == scores.author * 100 >= self.author_similarity_threshold * One
    IN  [raised |-> scores.raised,
         is_duplicate |-> /\ ~scores.raised
                          /\ scores.overall * 10 >= self.overall_score_threshold * One
                          /\ title_pass /\ author_pass]

\* dict.get(key, default)
Get(dict, key, default) == IF key \in DOMAIN dict THEN dict[key] ELSE default

DefaultWeights == [title |-> 4, author |-> 3, date |-> 2, place |-> 1]

\* RecordDeduplicator.__init__
RecordDeduplicator(cfg) ==
    [built |-> TRUE,
     title_similarity_threshold |-> Get(cfg, "title_threshold", 70),
     author_similarity_threshold |-> Get(cfg, "author_threshold", 80),
     date_tolerance_years |-> Get(cfg, "date_tolerance", 5),
     overall_score_threshold |-> Get(cfg, "overall_threshold", 75),
     weights |-> Get(cfg, "weights", DefaultWeights)]

\* df['title_normalized'].str[:3]: the first three characters
Chars3(w) ==
    CASE w \in {"historia", "historiae"} -> "his"
      [] w = "naturalis" -> "nat"
      [] w = "libri" -> "lib"
      [] w = "omnia" -> "omn"
      [] w = "opera" -> "ope"
      [] w = "plinii" -> "pli"
      [] OTHER -> w

title_first(title) ==
    LET norm == normalize_text(title)
    IN  IF Len(norm) = 0 THEN <<>>
        ELSE IF Head(norm) \in ShortWords /\ Len(norm) > 1 THEN <<Head(norm), " ">>
        ELSE <<Chars3(Head(norm))>>

\* df['publication_year'].fillna(0).astype(int) // 5
df_year_bucket(record) ==
    (IF record.publication_year = NULL THEN 0 ELSE record.publication_year) \div 5

\* One turn of the loop of find_duplicate_groups over df.iterrows(), for the
\* row idx that is not processed yet: [raised, matches].
FindMatches(self, frame, idx, processed) ==
    LET record == frame[idx]
        potential_matches ==
            {m \in DOMAIN frame :
                /\ m # idx
                /\ m \notin processed \cup {idx}
                /\ df_year_bucket(frame[m]) = df_year_bucket(record)
                /\ title_first(frame[m].title) = title_first(record.title)}
        pairs == [m \in potential_matches |-> is_duplicate_pair(self, record, frame[m])]
    IN  [raised |-> \E m \in potential_matches : pairs[m].raised,
         matches |-> <<idx>> \o SortAsc({m \in potential_matches : pairs[m].is_duplicate})]

\* The loop of find_duplicate_groups from index idx on: [raised, groups].
RECURSIVE FindGroups(_, _, _, _, _)
FindGroups(self, frame, idx, found, processed) ==
    IF idx > Len(frame) THEN [raised |-> FALSE, groups |-> found]
    ELSE IF idx \in processed THEN FindGroups(self, frame, idx + 1, found, processed)
    ELSE Only({IF turn.raised THEN [raised |-> TRUE, groups |-> <<>>]
               ELSE FindGroups(self, frame, idx + 1,
                               IF Len(turn.matches) > 1 THEN Append(found, turn.matches) ELSE found,
                               processed \cup Range(turn.matches)) :
                 turn \in {FindMatches(self, frame, idx, processed)}})

\* one group per single record
SingleGroups(single_indices) == [k \in DOMAIN single_indices |-> <<single_indices[k]>>]

\* find_duplicate_groups: the groups of duplicates, then one group per single record
find_duplicate_groups(self, frame) ==
    Only({IF loop.raised THEN loop
          ELSE [raised |-> FALSE,
                groups |-> loop.groups \o
                    SingleGroups(SortAsc(DOMAIN frame \
                        UNION {Range(loop.groups[g]) : g \in DOMAIN loop.groups}))] :
             loop \in {FindGroups(self, frame, 1, <<>>, {})}})

\* the letters of the words of a text of the catalogue rows
RECURSIVE SumLen(_)
SumLen(text) ==
    LET w == Head(text)
        WordLen == CASE w \in {"g"} -> 1
                     [] w \in {"de"} -> 2
                     [] w \in {"apud"} -> 4
                     [] w \in {"libri", "omnia", "opera", "gaius", "aldum"} -> 5
                     [] w \in {"plinii"} -> 6
                     [] w \in {"plinius", "Plinius"} -> 7
                     [] w \in {"historia", "Historia", "secundus", "venetiis", "basileae"} -> 8
                     [] w \in {"naturalis", "historiae"} -> 9
    IN  IF text = <<>> THEN 0 ELSE WordLen + SumLen(Tail(text))

\* len(str(value)) of a text column: the words and the spaces between them, 4 for None
StrLen(text) ==
    IF text = NULL_TEXT THEN 4
    ELSE IF text = <<>> THEN 0
    ELSE SumLen(text) + Len(text) - 1

\* source_priority.get(source, 10) of _select_primary_record for
\* source = str(source_catalogue).lower()
source_priority(source_catalogue) ==
    LET source == CASE source_catalogue = "USTC" -> "ustc"
                    [] source_catalogue = "VD16" -> "vd16"
                    [] OTHER -> source_catalogue
    IN  CASE source = "ustc" -> 1
          [] source = "vd16" -> 2
          [] source = "vd17" -> 3
          [] source = "vd18" -> 4
          [] source = "estc" -> 5
          [] source = "worldcat" -> 6
          [] OTHER -> 10

\* the score _select_primary_record gives a record, in 1/2000
PrimaryScore(record) ==
    LET completeness ==
            (IF record.title # NULL_TEXT THEN 1 ELSE 0)
            + (IF record.author # NULL_TEXT THEN 1 ELSE 0)
            + (IF record.publication_year # NULL THEN 1 ELSE 0)
            + (IF record.publication_place # NULL_TEXT THEN 1 ELSE 0)
    IN  (10 - source_priority(record.source_catalogue)) * 600
        + completeness * 200
        + Min2(StrLen(record.title), 100) * 3
        + Min2(StrLen(record.author), 50) * 6

\* max(..., key=...) of a list with these keys: the place of the first of the
\* entries with the highest key
FirstMax(scores) ==
    MinOf({k \in DOMAIN scores : \A n \in DOMAIN scores : scores[n] <= scores[k]})

\* _select_primary_record on df.loc[group]: the index of the primary record
select_primary_record(group, frame) ==
    group[FirstMax([k \in DOMAIN group |-> PrimaryScore(frame[group[k]])])]

\* _merge_field(group_records, field, 'string') on the values of the field, in
\* group order: the first of the longest values that are not blank, else None
merge_string(values) ==
    LET non_empty == SelectSeq(values, LAMBDA v : v # NULL_TEXT /\ v # <<>>)
    IN  IF non_empty = <<>> THEN NULL_TEXT
        ELSE non_empty[FirstMax([k \in DOMAIN non_empty |-> StrLen(non_empty[k])])]

\* _merge_field(group_records, field, 'numeric'): the first value that is not missing
merge_numeric(values) ==
    LET present == SelectSeq(values, LAMBDA v : v # NULL)
    IN  IF present = <<>> THEN NULL ELSE Head(present)

NoError == ""

\* The loop of _calculate_group_confidence over the pairs p < q of the group,
\* from the pair (p, q) on.  group_records = df.loc[group] has len(group) rows
\* and is read by position with the labels of the group: iloc[label] raises
\* IndexError when the label is not a position of group_records, else it gives
\* the row at that position.  Labels and positions are numbered from 1 here.
RECURSIVE ConfidencePairs(_, _, _, _, _, _)
ConfidencePairs(self, group, frame, p, q, similarities) ==
    IF p > Len(group) - 1 THEN [error |-> NoError, similarities |-> similarities]
    ELSE IF q > Len(group) THEN ConfidencePairs(self, group, frame, p + 1, p + 2, similarities)
    ELSE IF group[p] > Len(group) \/ group[q] > Len(group)
    THEN [error |-> "IndexError", similarities |-> <<>>]
    ELSE Only({IF scores.raised THEN [error |-> "ZeroDivisionError", similarities |-> <<>>]
               ELSE ConfidencePairs(self, group, frame, p, q + 1,
                                    Append(similarities, scores.overall)) :
                 scores \in {calculate_overall_similarity(self, frame[group[group[p]]],
                                                          frame[group[group[q]]])}})

RECURSIVE SumOf(_)
SumOf(seq) == IF seq = <<>> THEN 0 ELSE Head(seq) + SumOf(Tail(seq))

\* _calculate_group_confidence: the mean num / den of the pairwise overall scores
calculate_group_confidence(self, group, frame) ==
    IF Len(group) = 1 THEN [error |-> NoError, num |-> 10 * One, den |-> 1]
    ELSE Only({IF pairs.error # NoError THEN [error |-> pairs.error, num |-> 0, den |-> 1]
               ELSE [error |-> NoError, num |-> SumOf(pairs.similarities),
                     den |-> Len(pairs.similarities)] :
                 pairs \in {ConfidencePairs(self, group, frame, 1, 2, <<>>)}})

\* the column of a field for the rows of a group, in group order
Column(group, frame, field) == [k \in DOMAIN group |-> frame[group[k]][field]]

\* merge_duplicate_group: the merged record of a group, or the error it raises
merge_duplicate_group(self, group, frame) ==
    IF Len(group) = 1
    THEN [error |-> NoError, group |-> group, primary_idx |-> group[1],
          title |-> frame[group[1]].title, author |-> frame[group[1]].author,
          publication_year |-> frame[group[1]].publication_year,
          publication_place |-> frame[group[1]].publication_place,
          primary_source |-> frame[group[1]].source_catalogue,
          record_status |-> "", deduplication_confidence |-> NULL]
    ELSE Only({IF confidence.error # NoError
               THEN [error |-> confidence.error]
               ELSE [error |-> NoError, group |-> group,
                     primary_idx |-> select_primary_record(group, frame),
                     title |-> merge_string(Column(group, frame, "title")),
                     author |-> merge_string(Column(group, frame, "author")),
                     publication_year |-> merge_numeric(Column(group, frame, "publication_year")),
                     publication_place |-> merge_string(Column(group, frame, "publication_place")),
                     primary_source |-> frame[select_primary_record(group, frame)].source_catalogue,
                     record_status |-> "Deduplicated",
                     deduplication_confidence |-> [num |-> confidence.num, den |-> confidence.den]] :
                 confidence \in {calculate_group_confidence(self, group, frame)}})

\* The loop of deduplicate_dataframe over the groups, from group g on.
RECURSIVE MergeGroups(_, _, _, _, _)
MergeGroups(self, found, frame, g, merged_records) ==
    IF g > Len(found) THEN [raised |-> FALSE, error |-> NoError, records |-> merged_records]
    ELSE Only({IF merged_record.error # NoError
               THEN [raised |-> TRUE, error |-> merged_record.error, records |-> <<>>]
               ELSE MergeGroups(self, found, frame, g + 1, Append(merged_records, merged_record)) :
                 merged_record \in {merge_duplicate_group(self, found[g], frame)}})

\* deduplicate_dataframe: the groups found and the merged records, or the error raised
deduplicate_dataframe(self, frame) ==
    Only({IF found.raised
          THEN [raised |-> TRUE, error |-> "ZeroDivisionError", groups |-> <<>>, records |-> <<>>]
          ELSE Only({[raised |-> merged.raised, error |-> merged.error,
                      groups |-> found.groups, records |-> merged.records] :
                        merged \in {MergeGroups(self, found.groups, frame, 1, <<>>)}}) :
             found \in {find_duplicate_groups(self, frame)}})

\* ------------------------------------------ SpecDedup: the two deduplicators
\* The catalogue rows the tables are drawn from: title, author, year, place.
Row(title, author, year, place) ==
    [title |-> title, author |-> author, year |-> year, place |-> place]

Pool ==
    << Row(<<"historia", "naturalis", "libri">>, NULL_TEXT, 1504, <<"venetiis">>),
       Row(<<"historia", "naturalis", "libri">>, NULL_TEXT, 1505, <<"venetiis">>),
       Row(<<"historia", "naturalis", "libri">>, NULL_TEXT, 1509, NULL_TEXT),
       Row(<<"historia", "naturalis", "libri">>, NULL_TEXT, 1510, <<"basileae">>),
       Row(<<"libri", "historia", "naturalis">>, <<"plinius">>, 1505, <<"venetiis">>),
       Row(<<"Historia", "naturalis", "libri", "omnia">>, <<"gaius", "plinius">>, 1505, <<"venetiis">>),
       Row(<<"historiae", "naturalis", "libri">>, <<"g", "plinius">>, 1506, <<"venetiis", "apud", "aldum">>),
       Row(NULL_TEXT, <<"plinius">>, 1505, <<"venetiis">>),
       Row(<<>>, <<"plinius">>, 1505, NULL_TEXT),
       Row(<<"historia", "naturalis", "libri">>, <<"Plinius", "secundus">>, NULL, <<"venetiis">>),
       Row(<<"de", "historia", "naturalis">>, <<>>, 1505, <<"basileae">>),
       Row(<<"opera", "omnia", "plinii">>, <<>>, 1507, <<"basileae">>) >>

\* The tables: at most MaxRecords rows of the pool, a row's id is its place in the pool.
Tables == {S \in SUBSET DOMAIN Pool : Cardinality(S) <= MaxRecords}

\* the publications row ingest.py stores for a catalogue row
Publication(id) ==
    [id |-> id,
     title_normalized |-> IF Pool[id].title = NULL_TEXT THEN NULL_TEXT ELSE normalize_text(Pool[id].title),
     creator_normalized |-> IF Pool[id].author = NULL_TEXT THEN NULL_TEXT ELSE normalize_text(Pool[id].author),
     year |-> Pool[id].year,
     canonical_id |-> NULL]

\* the DataFrame row the pipeline collects for a catalogue row; the rows come
\* from two catalogues in turn
FrameRow(id) ==
    [title |-> Pool[id].title, author |-> Pool[id].author,
     publication_year |-> Pool[id].year, publication_place |-> Pool[id].place,
     source_catalogue |-> IF id % 2 = 1 THEN "USTC" ELSE "VD16"]

\* the DataFrame of the rows S, indexed 1..n in id order
Frame(S) == [k \in 1..Cardinality(S) |-> FrameRow(SortAsc(S)[k])]

\* values of SIMILARITY_THRESHOLD: the one of the source and two on the scale the scores have
Thresholds == {SIMILARITY_THRESHOLD, 8500, 9000}

\* the 'deduplication' section: absent, the default one, one that asks for no
\* author, and ones with a threshold out of range
Configs ==
    { [k \in {} |-> 0],
      [title_threshold |-> 70, author_threshold |-> 80, date_tolerance |-> 5, overall_threshold |-> 75],
      [author_threshold |-> 0, overall_threshold |-> 50],
      [title_threshold |-> 150],
      [overall_threshold |-> 0 - 10, author_threshold |-> 0] }

InitDedup ==
    /\ matcher = "search"
    /\ use_llm = FALSE
    /\ llm_mode = "hybrid"
    /\ TierIdle
    /\ MatchIdle
    /\ RunIdle
    /\ FuzzyIdle
    /\ rapidfuzz_available \in BOOLEAN
    /\ similarity_threshold \in Thresholds
    /\ \E S \in Tables :
        /\ publications = [id \in S |-> Publication(id)]
        /\ df = Frame(S)
    /\ deduplicated = FALSE
    /\ config \in Configs
    \* the two programs share no state: a run varies the settings of one of them
    /\ \/ config = [k \in {} |-> 0]
       \/ (rapidfuzz_available /\ similarity_threshold = SIMILARITY_THRESHOLD)
    /\ deduplicator = NoDeduplicator
    /\ groups = <<>>
    /\ deduplicated_df = <<>>

\* dedupe.py: deduplicate()
Deduplicate ==
    /\ publications' = deduplicate(publications, rapidfuzz_available, similarity_threshold)
    /\ deduplicated' = TRUE
    /\ UNCHANGED <<fuzzyVars, configVars, tierVars, matchVars, runVars, rapidfuzz_available,
                   similarity_threshold, config, deduplicator, df, groups, deduplicated_df>>

\* main_pipeline.py: initialize_deduplicator()
InitializeDeduplicator ==
    /\ ~deduplicator.built
    /\ deduplicator' = RecordDeduplicator(config)
    /\ UNCHANGED <<fuzzyVars, configVars, tierVars, matchVars, runVars, rapidfuzz_available,
                   similarity_threshold, publications, deduplicated, config, df, groups,
                   deduplicated_df>>

\* deduplicator.py: find_duplicate_groups(df)
FindDuplicateGroups ==
    /\ deduplicator.built
    /\ groups = <<>>
    /\ groups' = <<find_duplicate_groups(deduplicator, df)>>
    /\ UNCHANGED <<fuzzyVars, configVars, tierVars, matchVars, runVars, rapidfuzz_available,
                   similarity_threshold, publications, deduplicated, config, deduplicator, df,
                   deduplicated_df>>

\* deduplicator.py: deduplicate_dataframe(df)
DeduplicateDataframe ==
    /\ deduplicator.built
    /\ deduplicated_df = <<>>
    /\ deduplicated_df' = <<deduplicate_dataframe(deduplicator, df)>>
    /\ UNCHANGED <<fuzzyVars, configVars, tierVars, matchVars, runVars, rapidfuzz_available,
                   similarity_threshold, publications, deduplicated, config, deduplicator, df,
                   groups>>

NextDedup == Deduplicate \/ InitializeDeduplicator \/ FindDuplicateGroups \/ DeduplicateDataframe

SpecDedup == InitDedup /\ [][NextDedup]_vars

\* ============================================ cross-catalog fuzzy matcher
\* scripts/bph_ia_fuzzy_match.py (find_matches).  A string is the sequence of
\* its characters, None is NULL_TEXT.  The scores of rapidfuzz are in 1/Unit.

FUZZY_THRESHOLD == 80
SUBSTRING_MIN_LENGTH == 15

UpperCase == <<"A", "B", "C", "D", "E", "F", "G", "H", "I", "J", "K", "L", "M", "N", "O", "P", "Q", "R", "S", "T", "U", "V", "W", "X", "Y", "Z">>
LowerCase == <<"a", "b", "c", "d", "e", "f", "g", "h", "i", "j", "k", "l", "m", "n", "o", "p", "q", "r", "s", "t", "u", "v", "w", "x", "y", "z">>
\* str.lower() of one character
LowerChar(c) ==
    IF \E k \in DOMAIN UpperCase : UpperCase[k] = c
    THEN LowerCase[CHOOSE k \in DOMAIN UpperCase : UpperCase[k] = c]
    ELSE c

\* the characters \w matches
WordChars == {UpperCase[k] : k \in DOMAIN UpperCase} \cup {LowerCase[k] : k \in DOMAIN LowerCase}
             \cup {"0", "1", "2", "3", "4", "5", "6", "7", "8", "9", "_", "æ"}

\* str.split(); the first word of s ends before its first space
RECURSIVE Split(_)
Split(s) ==
    LET WordEnd == IF \E k \in DOMAIN s : s[k] = " "
                   THEN MinOf({k \in DOMAIN s : s[k] = " "}) - 1
                   ELSE Len(s)
    IN  IF s = <<>> THEN <<>>
        ELSE IF Head(s) = " " THEN Split(Tail(s))
        ELSE <<SubSeq(s, 1, WordEnd)>> \o Split(SubSeq(s, WordEnd + 1, Len(s)))

\* ' '.join(words)
RECURSIVE Join(_)
Join(words) ==
    IF words = <<>> THEN <<>>
    ELSE IF Len(words) = 1 THEN Head(words)
    ELSE Head(words) \o <<" ">> \o Join(Tail(words))

\* lists one after the other
RECURSIVE Concat(_)
Concat(lists) == IF lists = <<>> THEN <<>> ELSE Head(lists) \o Concat(Tail(lists))

\* t.replace('æ', 'ae'); the second ligature the code spells out is in no title here
Ligatures(s) ==
    Concat([k \in DOMAIN s |-> IF s[k] = "æ" THEN <<"a", "e">> ELSE <<s[k]>>])

\* normalize_title: lower case, re.sub(r'[^\w\s]', ' ', t), single spaces,
\* ligatures spelled out
normalize_title(title) ==
    IF title = NULL_TEXT \/ title = <<>> THEN <<>>
    ELSE Ligatures(Join(Split([k \in DOMAIN title |->
             IF LowerChar(title[k]) \in WordChars \cup {" "} THEN LowerChar(title[k]) ELSE " "])))

stopwords ==
    {<<"d", "e">>, <<"i", "n">>, <<"a", "d">>, <<"e", "t">>, <<"e", "x">>, <<"p", "r", "o">>,
     <<"p", "e", "r">>, <<"c", "u", "m">>, <<"a", "b">>, <<"a">>, <<"t", "h", "e">>,
     <<"o", "f">>, <<"a", "n", "d">>, <<"o", "r">>, <<"t", "o">>, <<"f", "r", "o", "m">>,
     <<"b", "y">>, <<"w", "i", "t", "h">>, <<"f", "o", "r">>, <<"l", "i", "b", "e", "r">>,
     <<"l", "i", "b", "r", "i">>, <<"l", "i", "b", "r", "o">>, <<"o", "p", "u", "s">>,
     <<"o", "p", "e", "r", "a">>, <<"t", "r", "a", "c", "t", "a", "t", "u", "s">>,
     <<"s", "u", "m", "m", "a">>, <<"v", "o", "n">>, <<"u", "n", "d">>, <<"d", "e", "r">>,
     <<"d", "i", "e">>, <<"d", "a", "s">>, <<"d", "e", "s">>, <<"d", "e", "m">>,
     <<"d", "e", "n">>, <<"e", "i", "n">>, <<"e", "i", "n", "e">>}

\* extract_significant_words with min_length = 4
extract_significant_words(title) ==
    {w \in Range(Split(normalize_title(title))) : Len(w) >= 4 /\ w \notin stopwords}

\* re.findall(r'\b([A-Z][a-z]+)\b', text): the words made of a capital and
\* one or more small letters, in order
Surnames(text) ==
    IF text = NULL_TEXT THEN <<>>
    ELSE SelectSeq(Split([k \in DOMAIN text |-> IF text[k] \in WordChars THEN text[k] ELSE " "]),
                   LAMBDA w : /\ Len(w) >= 2
                              /\ w[1] \in Range(UpperCase)
                              /\ \A k \in 2..Len(w) : w[k] \in Range(LowerCase))

\* surname.lower()
LowerWordChars(w) == [k \in DOMAIN w |-> LowerChar(w[k])]

\* build_ia_indices: all_titles in load order; by_words and by_author hold a
\* work once for each time the key turns up for it
build_ia_indices(works) ==
    LET titled == SelectSeq(works, LAMBDA work : normalize_title(work.title) # <<>>)
        words == UNION {extract_significant_words(works[k].title) : k \in DOMAIN works}
        surnames == UNION {{LowerWordChars(s) : s \in Range(Surnames(works[k].creator))} :
                              k \in DOMAIN works}
    IN  [built |-> TRUE,
         all_titles |-> [k \in DOMAIN titled |->
                            [norm |-> normalize_title(titled[k].title), work |-> titled[k]]],
         by_author |-> [s \in surnames |->
                           Concat([k \in DOMAIN works |->
                               [n \in 1..Cardinality({j \in DOMAIN Surnames(works[k].creator) :
                                                          LowerWordChars(Surnames(works[k].creator)[j]) = s})
                                   |-> works[k]]])],
         by_words |-> [w \in words |->
                          SelectSeq(works, LAMBDA work : w \in extract_significant_words(work.title))]]

\* matches[:5]
First5(matches) == SubSeq(matches, 1, Min2(5, Len(matches)))

\* norm_ia.startswith(prefix)
match_exact_prefix(bph_title, indices, prefix_len) ==
    LET norm_bph == normalize_title(bph_title)
        prefix == SubSeq(norm_bph, 1, Min2(prefix_len, Len(norm_bph)))
        hits == SelectSeq(indices.all_titles,
                    LAMBDA e : /\ Len(prefix) <= Len(e.norm)
                               /\ SubSeq(e.norm, 1, Len(prefix)) = prefix)
    IN  First5([k \in DOMAIN hits |->
                   [method |-> "exact_prefix", score |-> 100 * Unit, ia_work |-> hits[k].work]])

\* candidates[identifier]: the significant words of the title that list the work
SharedWords(bph_words, indices, identifier) ==
    Cardinality({w \in bph_words \cap DOMAIN indices.by_words :
                    \E k \in DOMAIN indices.by_words[w] : indices.by_words[w][k].identifier = identifier})

\* norm_bph in norm_ia for the works that share enough significant words
match_substring(bph_title, indices) ==
    LET norm_bph == normalize_title(bph_title)
        bph_words == extract_significant_words(bph_title)
        hits == SelectSeq(indices.all_titles,
                    LAMBDA e : /\ SharedWords(bph_words, indices, e.work.identifier) >= 1
                               /\ SharedWords(bph_words, indices, e.work.identifier)
                                      >= Min2(2, Cardinality(bph_words))
                               /\ \E k \in 0..(Len(e.norm) - Len(norm_bph)) :
                                      SubSeq(e.norm, k + 1, k + Len(norm_bph)) = norm_bph)
    IN  IF Len(norm_bph) < SUBSTRING_MIN_LENGTH THEN <<>>
        ELSE IF bph_words = {} THEN <<>>
        ELSE First5([k \in DOMAIN hits |->
                        [method |-> "substring", score |-> 95 * Unit, ia_work |-> hits[k].work]])

match_fuzzy(bph_title, indices) ==
    LET norm_bph == normalize_title(bph_title)
        bph_words == extract_significant_words(bph_title)
        candidate_works == SelectSeq(indices.all_titles,
                               LAMBDA e : SharedWords(bph_words, indices, e.work.identifier) >= 1)
        hits == SelectSeq(candidate_works,
                    LAMBDA e : token_set_ratio(Split(norm_bph), Split(e.norm)) >= FUZZY_THRESHOLD * Unit)
    IN  IF Len(norm_bph) < 10 THEN <<>>
        ELSE First5(SortDesc([k \in DOMAIN hits |->
                 [method |-> "fuzzy",
                  score |-> token_set_ratio(Split(norm_bph), Split(hits[k].norm)),
                  ia_work |-> hits[k].work]]))

match_author_title(work, indices) ==
    LET author == work.author
        title == work.title
        surnames == SelectSeq(Surnames(author),
                              LAMBDA s : LowerWordChars(s) \in DOMAIN indices.by_author)
        by_this_author == Concat([k \in DOMAIN surnames |->
                                     indices.by_author[LowerWordChars(surnames[k])]])
        Score(ia_work) == token_set_ratio(Split(normalize_title(title)),
                                          Split(normalize_title(ia_work.title)))
        hits == SelectSeq(by_this_author, LAMBDA ia_work : Score(ia_work) >= 60 * Unit)
    IN  IF author = NULL_TEXT \/ author = <<>> \/ title = NULL_TEXT \/ title = <<>> THEN <<>>
        ELSE First5(SortDesc([k \in DOMAIN hits |->
                 [method |-> "author_title", score |-> Score(hits[k]), ia_work |-> hits[k]]]))

find_matches(work, indices) ==
    LET all_matches == match_exact_prefix(work.title, indices, 50)
                       \o match_substring(work.title, indices)
                       \o match_fuzzy(work.title, indices)
                       \o match_author_title(work, indices)
        kept == SelectSeq([k \in DOMAIN all_matches |->
                    [match |-> all_matches[k],
                     seen |-> \E j \in 1..(k - 1) :
                                 all_matches[j].ia_work.identifier = all_matches[k].ia_work.identifier]],
                    LAMBDA e : ~e.seen)
        unique_matches == SortDesc([k \in DOMAIN kept |-> kept[k].match])
    IN  [bph_work |-> work,
         matches |-> First5(unique_matches),
         best_method |-> IF unique_matches # <<>> THEN unique_matches[1].method ELSE "",
         best_score |-> IF unique_matches # <<>> THEN unique_matches[1].score ELSE 0,
         found |-> Len(unique_matches) > 0]

\* ------------------------------------------------- SpecFuzzy: find_matches
\* the ia_latin_texts rows and the bph_works rows the runs are drawn from
IaPool ==
    << [identifier |-> "ia1",
        title |-> <<"H", "i", "s", "t", "o", "r", "i", "a", " ", "n", "a", "t", "u", "r", "a", "l", "i", "s", " ", "l", "i", "b", "r", "i", " ", "X", "X", "X", "V", "I", "I">>,
        creator |-> <<"P", "l", "i", "n", "i", "u", "s", " ", "S", "e", "c", "u", "n", "d", "u", "s", ",", " ", "G", "a", "i", "u", "s">>],
       [identifier |-> "ia2",
        title |-> <<"C", ".", " ", "P", "l", "i", "n", "i", "i", " ", "S", "e", "c", "u", "n", "d", "i", " ", "H", "i", "s", "t", "o", "r", "i", "æ", " ", "n", "a", "t", "u", "r", "a", "l", "i", "s", " ", "l", "i", "b", "r", "i">>,
        creator |-> <<"P", "l", "i", "n", "i", "u", "s">>],
       [identifier |-> "ia3",
        title |-> <<"D", "e", " ", "a", "n", "i", "m", "a">>,
        creator |-> <<"A", "r", "i", "s", "t", "o", "t", "e", "l", "e", "s">>],
       [identifier |-> "ia4",
        title |-> NULL_TEXT,
        creator |-> <<"A", "n", "o", "n", "y", "m", "u", "s">>] >>

BphPool ==
    << [id |-> 1,
        title |-> <<>>,
        author |-> <<"P", "l", "i", "n", "i", "u", "s">>],
       [id |-> 2,
        title |-> NULL_TEXT,
        author |-> NULL_TEXT],
       [id |-> 3,
        title |-> <<".", ".", ".">>,
        author |-> <<"P", "l", "i", "n", "i", "u", "s", ",", " ", "G", ".">>],
       [id |-> 4,
        title |-> <<"H", "i", "s", "t", "o", "r", "i", "a", " ", "n", "a", "t", "u", "r", "a", "l", "i", "s">>,
        author |-> <<"P", "l", "i", "n", "i", "u", "s">>],
       [id |-> 5,
        title |-> <<"D", "e", " ", "a", "n", "i", "m", "a">>,
        author |-> NULL_TEXT],
       [id |-> 6,
        title |-> <<"N", "a", "t", "u", "r", "a", "l", "i", "s", " ", "h", "i", "s", "t", "o", "r", "i", "a", "e", " ", "l", "i", "b", "r", "i">>,
        author |-> <<"G", "a", "i", "u", "s", " ", "P", "l", "i", "n", "i", "u", "s">>],
       [id |-> 7,
        title |-> <<"S", "e", "c", "u", "n", "d", "i", " ", "H", "i", "s", "t", "o", "r", "i", "a", "e", " ", "n", "a", "t", "u", "r", "a", "l", "i", "s">>,
        author |-> NULL_TEXT] >>

InitFuzzy ==
    /\ matcher = "search"
    /\ use_llm = FALSE
    /\ llm_mode = "hybrid"
    /\ TierIdle
    /\ MatchIdle
    /\ RunIdle
    /\ DedupIdle
    /\ \E S \in SUBSET DOMAIN IaPool :    \* load_ia_latin_works: rows of the pool, in its order
          ia_works = [k \in 1..Cardinality(S) |-> IaPool[SortAsc(S)[k]]]
    /\ bph_work \in Range(BphPool)
    /\ ia_indices = [built |-> FALSE]
    /\ found_matches = <<>>

\* main(): build_ia_indices(ia_works)
BuildIaIndices ==
    /\ ~ia_indices.built
    /\ ia_indices' = build_ia_indices(ia_works)
    /\ UNCHANGED <<configVars, tierVars, matchVars, runVars, dedupVars, ia_works, bph_work,
                   found_matches>>

\* main(): find_matches(bph_work, ia_indices) for one source record
FindMatchesOfWork ==
    /\ ia_indices.built
    /\ found_matches = <<>>
    /\ found_matches' = <<find_matches(bph_work, ia_indices)>>
    /\ UNCHANGED <<configVars, tierVars, matchVars, runVars, dedupVars, ia_works, bph_work,
                   ia_indices>>

NextFuzzy == BuildIaIndices \/ FindMatchesOfWork

SpecFuzzy == InitFuzzy /\ [][NextFuzzy]_vars

\* ================================================================ claims
\* Number of corroborating signals (author match, year match) of a similarity vector.
Corroborating(p) ==
    (IF p.author_match THEN 1 ELSE 0) + (IF p.year_match THEN 1 ELSE 0)

\* The tiering policy, stated on the thresholds of matcher m.
PolicyHigh(m, p) ==
    \/ p.score >= HighThreshold(m) /\ Corroborating(p) >= 1
    \/ p.score >= MediumThreshold(m) /\ Corroborating(p) = 2

PolicyMedium(m, p) ==
    \/ p.score >= HighThreshold(m) /\ Corroborating(p) = 0
    \/ p.score >= MediumThreshold(m) /\ Corroborating(p) = 1

RegionMedium(m, p) ==
    \/ p.score >= HighThreshold(m) /\ Corroborating(p) = 0
    \/ /\ p.score >= MediumThreshold(m)
       /\ p.score < HighThreshold(m)
       /\ Corroborating(p) = 1

RegionArbitration(m, p) ==
    /\ p.score >= LowThreshold(m)
    /\ \/ p.score < MediumThreshold(m)
       \/ p.score < HighThreshold(m) /\ Corroborating(p) = 0

RegionNoMatch(m, p) == p.score < LowThreshold(m)

\* The tiers a matcher writes into a candidate's confidence.
TierNames(m) ==
    IF m = "agent" THEN {"high", "medium", "needs_llm", "low"}
    ELSE {"high", "medium", "low", "none"}

\* The region of the policy that tier t of matcher m stands for. The agent matcher
\* has no tier of its own for "no match": "low" covers it, and covers the
\* arbitration band too when no oracle is configured.
TierRegion(m, t, p, llm) ==
    CASE t = "high" -> PolicyHigh(m, p)
      [] t = "medium" -> RegionMedium(m, p)
      [] t = "needs_llm" -> llm /\ RegionArbitration(m, p)
      [] t = "low" -> IF m = "search" THEN RegionArbitration(m, p)
                      ELSE IF llm THEN RegionNoMatch(m, p)
                      ELSE RegionArbitration(m, p) \/ RegionNoMatch(m, p)
      [] t = "none" -> RegionNoMatch(m, p)
      [] OTHER -> FALSE

\* C2: every scored pair gets exactly one tier: the pair lies in the region of
\* exactly one tier of its matcher, and that tier is the one assigned.
Thm_C2 ==
    tier # "" =>
        /\ tier \in TierNames(matcher)
        /\ {t \in TierNames(matcher) : TierRegion(matcher, t, pair, use_llm)} = {tier}

\* C2 witness: a pair exactly at the agent matcher's low threshold, tiered for
\* arbitration.
Wit_C2 ==
    /\ matcher = "agent"
    /\ pair.score = EMBEDDING_THRESHOLD_LOW
    /\ tier = "needs_llm"

\* The best candidate of the call recorded in docs, as match_work ranks them.
Best == Evaluate(matcher, docs, use_llm)[1]

\* The best candidate reaches the low threshold and is neither high nor medium.
BestAmbiguous ==
    /\ called
    /\ docs # <<>>
    /\ Best.score >= LowThreshold(matcher)
    /\ ~PolicyHigh(matcher, Best)
    /\ ~PolicyMedium(matcher, Best)

BestBelowLow ==
    /\ called
    /\ docs # <<>>
    /\ Best.score < LowThreshold(matcher)

\* C3: an ambiguous best candidate is passed to llm_evaluate when use_llm is true;
\* when use_llm is false llm_evaluate is not called, whatever llm_mode is, and the
\* pair is not accepted.
CE_C3 ==
    BestAmbiguous =>
        /\ use_llm => llm_evals = 1
        /\ ~use_llm => (llm_evals = 0 /\ ~result.is_match /\ result.ia_work = NoWork)

\* The oracle answered, and what it sent is no JSON object with the three keys.
Malformed(r) ==
    /\ r.call = "ok"
    /\ \/ r.shape \in {"prose", "empty_object", "broken_json", "nested_object"}
       \/ /\ r.shape = "flat_object"
          /\ Absent \in {r.verdict, r.confidence, r.reasoning}

\* C4: a malformed or unparseable response yields a result with is_match false, no
\* target record and confidence "low".
Thm_C4 ==
    (called /\ requests = 1 /\ Malformed(resp)) =>
        /\ result.is_match = FALSE
        /\ result.ia_work = NoWork
        /\ result.confidence = "low"

\* C4 witness: the response says "same work" but has no "confidence" key.
Wit_C4 ==
    /\ called
    /\ requests = 1
    /\ resp.shape = "flat_object"
    /\ resp.verdict = "SAME_WORK"
    /\ resp.confidence = Absent
    /\ result.method = "llm_error"

\* C5 as claimed: the raw text of a malformed response is part of the reasoning of
\* the result.
CE_C5 ==
    (called /\ requests = 1 /\ Malformed(resp)) => resp.text \in Range(result.reasoning)

\* The messages of the exceptions parsing can raise (json.loads, a missing key).
ParseErrors ==
    {"Expecting property name enclosed in double quotes", "'verdict'", "'confidence'",
     "'reasoning'"}

\* C5 amended: the reasoning of the result of a malformed response is the fixed
\* text "Could not parse response" or "LLM error: " followed by the message of the
\* exception parsing raised; the raw response text is not in it.
Thm_C5 ==
    (called /\ requests = 1 /\ Malformed(resp)) =>
        /\ \/ result.reasoning = <<"Could not parse response">>
           \/ /\ Len(result.reasoning) = 2
              /\ result.reasoning[1] = "LLM error: "
              /\ result.reasoning[2] \in ParseErrors
        /\ resp.text \notin Range(result.reasoning)

\* C5 witness: a response of plain prose, answered with the fixed text.
Wit_C5 ==
    /\ called
    /\ requests = 1
    /\ resp.shape = "prose"
    /\ result.reasoning = <<"Could not parse response">>

\* The call reached the oracle and the oracle failed: the request raised, or the
\* answer could not be parsed.
OracleFailed ==
    /\ called
    /\ llm_evals = 1
    /\ requests >= 1
    /\ (resp.call = "raise" \/ Malformed(resp))

\* What the matcher returns for the same candidates when no oracle is configured.
DeterministicResult == match_work(matcher, 1, docs, NoResp, FALSE, "hybrid").result

\* C6 as claimed: at most one retry, and after a failed oracle call the decision is
\* the deterministic one (the medium match, or no match).
CE_C6 ==
    /\ requests <= 2
    /\ OracleFailed =>
          /\ result.is_match = DeterministicResult.is_match
          /\ result.ia_work = DeterministicResult.ia_work

\* C6 amended: the oracle is asked at most once per pair (no retry); after a failed
\* call the pair is returned unmatched with confidence "low", which is the
\* deterministic decision unless the best candidate is of the medium tier (full
\* mode), whose deterministic medium match is not restored.
Thm_C6 ==
    /\ requests <= 1
    /\ OracleFailed =>
          /\ ~result.is_match
          /\ result.ia_work = NoWork
          /\ result.confidence = "low"
          /\ IF Best.confidence = "medium"
             THEN llm_mode = "full" /\ DeterministicResult.is_match
             ELSE /\ result.is_match = DeterministicResult.is_match
                  /\ result.ia_work = DeterministicResult.ia_work

\* C6 witness: full mode, a medium best candidate, the request timed out, and the
\* pair came back unmatched.
Wit_C6 ==
    /\ OracleFailed
    /\ llm_mode = "full"
    /\ Best.confidence = "medium"
    /\ resp.call = "raise"
    /\ ~result.is_match

\* C7: no exception leaves run_matching, and the list it returns holds one result
\* per source record, in order, whatever failed on earlier records.
Thm_C7 ==
    /\ pc # "aborted"
    /\ pc = "running" => Len(results) = i
    /\ pc = "done" =>
          /\ Len(results) = Len(bph_works)
          /\ \A k \in DOMAIN results : results[k].bph_work = bph_works[k]

\* C7 witness: the run is complete although the oracle call of the first source
\* record failed.
Wit_C7 ==
    /\ pc = "done"
    /\ Len(results) = NumWorks
    /\ results[1].method = "llm_error"

\* C8: match_work returns one result for its source record; it is a match exactly
\* when it carries a target, and the target is a candidate no other candidate of
\* the record outscores.
Thm_C8 ==
    called =>
        /\ result.bph_work = 1
        /\ result.is_match <=> (result.ia_work # NoWork)
        /\ result.ia_work # NoWork =>
              /\ result.ia_work \in DOMAIN docs
              /\ \A k \in DOMAIN docs : docs[k].score <= docs[result.ia_work].score

\* C8 witness: the second candidate outscores the first and is the target.
Wit_C8 ==
    /\ called
    /\ Len(docs) = 2
    /\ docs[1].score < docs[2].score
    /\ result.ia_work = 2

Unmatched == ~result.is_match /\ result.ia_work = NoWork

\* C9 as claimed: no candidates gives "no_candidates", a best candidate below the
\* low threshold gives another marker, and both are unmatched without a target.
CE_C9 ==
    called =>
        /\ docs = <<>> => (result.match_type = "no_candidates" /\ Unmatched)
        /\ BestBelowLow => (result.match_type # "no_candidates" /\ Unmatched)

\* C9 amended: no candidates gives "no_candidates"; a best candidate below the low
\* threshold gives "no_match" without a call of llm_evaluate, except in the agent
\* matcher's full mode, where the best candidate is passed to llm_evaluate and the
\* result is what llm_evaluate returns (a match when the oracle says so).
Thm_C9 ==
    called =>
        /\ docs = <<>> => (result.match_type = "no_candidates" /\ Unmatched)
        /\ (BestBelowLow /\ ~(matcher = "agent" /\ llm_mode = "full")) =>
              (result.match_type = "no_match" /\ Unmatched /\ llm_evals = 0)
        /\ (BestBelowLow /\ matcher = "agent" /\ llm_mode = "full") =>
              /\ llm_evals = 1
              /\ result = llm_evaluate(matcher, 1, Best, resp, use_llm).result
              /\ result.match_type \notin {"no_candidates", "no_match"}
              /\ result.is_match <=>
                    (requests = 1 /\ resp.call = "ok" /\ ~Malformed(resp)
                     /\ resp.verdict \in {"SAME_EDITION", "SAME_WORK"})

\* C9 witness: the agent matcher in full mode accepted a best candidate below the
\* low threshold on the oracle's verdict.
Wit_C9 ==
    /\ BestBelowLow
    /\ matcher = "agent"
    /\ llm_mode = "full"
    /\ result.is_match
    /\ result.method = "llm"

\* C10 as claimed: the program started again after an interruption does not run
\* match_work on a source record whose match was already saved.
CE_C10 == saved_at_restart \cap computed = {}

\* C10 amended: the matches saved before the interruption stay in the table, but
\* the program started again loads every source record and recomputes them from
\* the first one, the records with a saved match included.
Thm_C10 ==
    restarts > 0 =>
        /\ \A w \in saved_at_restart : db[w].ia_identifier # NoWork
        /\ pc \in {"running", "done"} =>
              /\ bph_works = [k \in 1..NumWorks |-> k]
              /\ computed = {bph_works[k] : k \in 1..i}
        /\ pc = "done" => saved_at_restart \subseteq computed

\* C10 witness: a restarted run finished and did recompute a source record whose
\* match had been saved before the interruption.
Wit_C10 ==
    /\ restarts > 0
    /\ pc = "done"
    /\ saved_at_restart # {}
    /\ saved_at_restart \subseteq computed

\* ---------------------------------------------- claims on deduplication
\* the rows of the publications table
Rows == {publications[id] : id \in DOMAIN publications}

\* a score num / den lies on the scale 0..100
InScale(score) == score.num >= 0 /\ score.num <= 100 * score.den

\* C11: similarity_score returns a value between 0 and 100 for every pair of
\* records, whatever subset of title, creator and year is present.
CE_C11 ==
    \A a, b \in Rows : InScale(similarity_score(rapidfuzz_available, a, b))

\* Two records co-occur in a block of deduplicate(): both are selected and
\* share a key.
CoBlocked(a, b) ==
    /\ a.id # b.id
    /\ {a, b} \subseteq Range(SelectRecords(publications))
    /\ Range(BlockKeys(a)) \cap Range(BlockKeys(b)) # {}

\* C12: after deduplicate(), every pair of records that co-occurs in a block and
\* scores at least the similarity threshold carries the same canonical_id.
CE_C12 ==
    deduplicated =>
        \A a, b \in Rows :
            (CoBlocked(a, b)
             /\ AtLeast(similarity_score(rapidfuzz_available, a, b), similarity_threshold))
            => (a.canonical_id # NULL /\ a.canonical_id = b.canonical_id)

\* record r shares its canonical_id with another record
Merged(r) ==
    /\ r.canonical_id # NULL
    /\ \E q \in Rows : q.id # r.id /\ q.canonical_id = r.canonical_id

\* C13 as stated: after deduplicate(), canonical_id is defined for every record
\* and a record merged with no other record has its own id as canonical_id.
CE_C13 ==
    deduplicated =>
        \A r \in Rows : r.canonical_id # NULL /\ (~Merged(r) => r.canonical_id = r.id)

\* C13: after deduplicate(), a record merged with no other record has the
\* canonical_id NULL, and every record of a duplicate cluster has the lowest id
\* of the cluster as canonical_id (the identity for the canonical record only).
Thm_C13 ==
    deduplicated =>
        \A r \in Rows :
            /\ ~Merged(r) => r.canonical_id = NULL
            /\ Merged(r) =>
                r.canonical_id = MinOf({q.id : q \in {p \in Rows : p.canonical_id = r.canonical_id}})

\* C13 witness: deduplicate() has left one record unmerged and has merged others.
Wit_C13 ==
    /\ deduplicated
    /\ \E r \in Rows : ~Merged(r) /\ Truthy(r.title_normalized) /\ r.year # NULL
    /\ \E r \in Rows : Merged(r) /\ r.canonical_id # r.id

\* the records that survive a run: the canonical record of each cluster and the
\* unmerged records
Survivors == {id \in DOMAIN publications : publications[id].canonical_id \in {NULL, id}}

\* C14: running deduplicate() again on the records that survived a first run
\* merges nothing.
CE_C14 ==
    deduplicated =>
        LET again == deduplicate([id \in Survivors |-> publications[id]],
                                 rapidfuzz_available, similarity_threshold)
        IN  \A id \in Survivors : again[id].canonical_id = NULL

\* records joined into duplicate clusters, and multi-record clusters, at a threshold
MergedCount(threshold) == Cardinality(UNION Clusters(publications, rapidfuzz_available, threshold))
ClusterCount(threshold) == Cardinality(Clusters(publications, rapidfuzz_available, threshold))

\* C15: on the same table, a higher similarity threshold never joins more records
\* into duplicate clusters, nor forms more multi-record clusters, than a lower one.
CE_C15 ==
    \A low, high \in Thresholds :
        low <= high =>
            /\ MergedCount(high) <= MergedCount(low)
            /\ ClusterCount(high) <= ClusterCount(low)

\* the rows of the DataFrame
FrameRows == {df[k] : k \in DOMAIN df}

\* C16: similarity_score, calculate_overall_similarity (field by field) and
\* is_duplicate_pair give the same result for (a, b) and for (b, a).
Thm_C16 ==
    /\ \A a, b \in Rows : \A rapidfuzz \in BOOLEAN :
          similarity_score(rapidfuzz, a, b) = similarity_score(rapidfuzz, b, a)
    /\ deduplicator.built =>
          \A a, b \in FrameRows :
              /\ calculate_overall_similarity(deduplicator, a, b)
                    = calculate_overall_similarity(deduplicator, b, a)
              /\ is_duplicate_pair(deduplicator, a, b) = is_duplicate_pair(deduplicator, b, a)

\* C16 witness: both deduplicators have run on a table that holds a duplicate
\* pair and a pair of authors of different lengths and surnames.
Wit_C16 ==
    /\ deduplicated
    /\ deduplicator.built
    /\ groups # <<>>
    /\ \E a, b \in FrameRows :
          a # b /\ is_duplicate_pair(deduplicator, a, b).is_duplicate
    /\ \E a, b \in FrameRows :
          /\ a.author # NULL_TEXT /\ b.author # NULL_TEXT
          /\ Len(a.author) # Len(b.author)
          /\ calculate_author_similarity(a.author, b.author) \notin {0, One, Raised}

\* the significant words of a normalized title: longer than two letters, no stop word
SignificantWords(text) ==
    IF text = NULL_TEXT THEN {} ELSE {w \in Tokens(text) : w \notin ShortWords /\ w \notin stop_words}

\* C17: two records whose normalized titles share at least 2 significant words and
\* whose years differ by at most 5 appear together in at least one block.
CE_C17 ==
    \A a, b \in Rows :
        (/\ a.id # b.id
         /\ a.year # NULL /\ b.year # NULL
         /\ Abs(a.year - b.year) <= 5
         /\ Cardinality(SignificantWords(a.title_normalized)
                        \cap SignificantWords(b.title_normalized)) >= 2)
        => CoBlocked(a, b)

\* record r has an empty or null normalized title, or no year
Incomparable(r) == ~Truthy(r.title_normalized) \/ r.year = NULL

\* the ids of the records of the blocks deduplicate() builds
Blocked ==
    LET records == SelectRecords(publications)
        keys == BlockOrder(records, <<>>)
    IN  {r.id : r \in UNION {Range(Block(records, keys[k])) : k \in DOMAIN keys}}

\* C18: a record with an empty or null normalized title or with no year is in no
\* block, and after deduplicate() it has no canonical_id and no record has its id
\* as canonical_id.
Thm_C18 ==
    \A r \in Rows :
        Incomparable(r) =>
            /\ r.id \notin Blocked
            /\ deduplicated =>
                  (r.canonical_id = NULL /\ \A q \in Rows : q.canonical_id # r.id)

\* C18 witness: deduplicate() has run on a table with a record without title, a
\* record without year and a duplicate cluster.
Wit_C18 ==
    /\ deduplicated
    /\ \E r \in Rows : ~Truthy(r.title_normalized) /\ r.year # NULL
    /\ \E r \in Rows : Truthy(r.title_normalized) /\ r.year = NULL
    /\ \E r \in Rows : Merged(r)

\* C19: a RecordDeduplicator is never built with a title, author or overall
\* threshold outside [0, 1] (0..100 in hundredths).
CE_C19 ==
    deduplicator.built =>
        /\ deduplicator.title_similarity_threshold \in 0..100
        /\ deduplicator.author_similarity_threshold \in 0..100
        /\ deduplicator.overall_score_threshold \in 0..100

\* C20: in full mode with the oracle in use, match_work calls llm_evaluate on the
\* best candidate of every source record that has a candidate.
CE_C20 ==
    (called /\ use_llm /\ llm_mode = "full" /\ docs # <<>>) => llm_evals >= 1

\* C21: deduplicate_dataframe raises nothing and returns one merged record for
\* each group find_duplicate_groups finds, wherever the duplicates sit in the frame.
CE_C21 ==
    \A out \in Range(deduplicated_df) :
        /\ ~out.raised
        /\ Len(out.records) = Len(find_duplicate_groups(deduplicator, df).groups)

\* the weighted average num / den of the signals of a pair: signals[k] is
\* [present, weight, sim]; 0 when no signal is present
RECURSIVE WeightedSum(_, _)
WeightedSum(signals, field) ==
    IF signals = <<>> THEN 0
    ELSE (IF Head(signals).present THEN Head(signals)[field] ELSE 0)
         + WeightedSum(Tail(signals), field)

WeightedAverage(signals) ==
    LET weighted == [k \in DOMAIN signals |->
                        [present |-> signals[k].present, weight |-> signals[k].weight,
                         product |-> signals[k].weight * signals[k].sim]]
    IN  IF WeightedSum(weighted, "weight") = 0 THEN [num |-> 0, den |-> 1]
        ELSE [num |-> WeightedSum(weighted, "product"), den |-> WeightedSum(weighted, "weight")]

\* the signals of a pair of publications rows, similarities in 1/Unit of 0..100
ScoreSignals(rapidfuzz, a, b) ==
    << [present |-> Truthy(a.title_normalized) /\ Truthy(b.title_normalized), weight |-> 6,
        sim |-> TextSim(rapidfuzz, a.title_normalized, b.title_normalized)],
       [present |-> Truthy(a.creator_normalized) /\ Truthy(b.creator_normalized), weight |-> 3,
        sim |-> TextSim(rapidfuzz, a.creator_normalized, b.creator_normalized)],
       [present |-> a.year # NULL /\ b.year # NULL, weight |-> 1,
        sim |-> IF Abs(a.year - b.year) <= YEAR_TOLERANCE
                THEN (100 - Abs(a.year - b.year) * 20) * Unit ELSE 0] >>

\* the signals of a pair of DataFrame rows, similarities as calculate_overall_similarity has them
OverallSignals(self, scores, a, b) ==
    << [present |-> Truthy(a.title) /\ Truthy(b.title),
        weight |-> self.weights.title, sim |-> scores.title],
       [present |-> Truthy(a.author) /\ Truthy(b.author),
        weight |-> self.weights.author, sim |-> scores.author],
       [present |-> a.publication_year # NULL /\ b.publication_year # NULL,
        weight |-> self.weights.date, sim |-> scores.date],
       [present |-> Truthy(a.publication_place) /\ Truthy(b.publication_place),
        weight |-> self.weights.place, sim |-> scores.place] >>

\* the score of similarity_score (num over a multiple of Unit, or 0 / 1) is the
\* average (in 1/Unit)
SameScore(score, average) ==
    IF score.den = 1 THEN score.num = 0 /\ average.num = 0
    ELSE score.num * average.den = average.num * (score.den \div Unit)

\* C22: the overall score of a pair is the weighted average of the signals
\* present on both records, for similarity_score (scale 0..100) and for
\* calculate_overall_similarity (scale 0..1), and no pair fails.
CE_C22 ==
    /\ \A a, b \in Rows :
          LET score == similarity_score(rapidfuzz_available, a, b)
              average == WeightedAverage(ScoreSignals(rapidfuzz_available, a, b))
          IN  SameScore(score, average)
    /\ deduplicator.built =>
          \A a, b \in FrameRows :
              LET scores == calculate_overall_similarity(deduplicator, a, b)
                  average == WeightedAverage(OverallSignals(deduplicator, scores, a, b))
              IN  /\ ~scores.raised
                  /\ scores.overall * average.den = 10 * average.num

\* the length of a text that is present, 0 for a missing one
TextLength(text) == IF Truthy(text) THEN StrLen(text) ELSE 0

\* The canonical selection policy on records given as [id, fields, length]:
\* x is to be preferred to y when it has more non-null required fields, or as
\* many and longer title and author strings, or as many, as long and a lower id.
Preferred(x, y) ==
    \/ x.fields > y.fields
    \/ x.fields = y.fields /\ x.length > y.length
    \/ x.fields = y.fields /\ x.length = y.length /\ x.id < y.id

PolicyChoice(candidates) ==
    (CHOOSE x \in candidates : \A y \in candidates \ {x} : Preferred(x, y)).id

\* a publications row and a DataFrame row as the policy sees them
PublicationCandidate(r) ==
    [id |-> r.id,
     fields |-> Cardinality({f \in {"title_normalized", "creator_normalized"} : r[f] # NULL_TEXT})
                + (IF r.year # NULL THEN 1 ELSE 0),
     length |-> TextLength(r.title_normalized) + TextLength(r.creator_normalized)]

FrameCandidate(idx) ==
    [id |-> idx,
     fields |-> Cardinality({f \in {"title", "author", "publication_place"} : df[idx][f] # NULL_TEXT})
                + (IF df[idx].publication_year # NULL THEN 1 ELSE 0),
     length |-> TextLength(df[idx].title) + TextLength(df[idx].author)]

\* C23: the canonical record of a cluster of deduplicate() and the primary
\* record of a merged group of RecordDeduplicator are the choice of the policy:
\* most non-null required fields, then longest title and author, then lowest id.
CE_C23 ==
    /\ deduplicated =>
          \A r \in Rows :
              Merged(r) =>
                  r.canonical_id = PolicyChoice({PublicationCandidate(q) :
                                        q \in {p \in Rows : p.canonical_id = r.canonical_id}})
    /\ \A out \in Range(deduplicated_df) :
          \A k \in DOMAIN out.records :
              Len(out.records[k].group) > 1 =>
                  out.records[k].primary_idx
                      = PolicyChoice({FrameCandidate(idx) : idx \in Range(out.records[k].group)})

\* two records score at least the threshold of the run
Linked(a, b) ==
    a # b /\ AtLeast(similarity_score(rapidfuzz_available, a, b), similarity_threshold)

\* The records of a list that a chain of linked pairs connects with a record
\* of S: the connected component of S in the threshold graph.
RECURSIVE Connected(_, _)
Connected(S, list) ==
    Only({IF more \subseteq S THEN S ELSE Connected(S \cup more, list) :
             more \in {{b \in Range(list) : \E a \in S : Linked(a, b)}}})

\* the lists find_clusters is given: the blocks of deduplicate(), and all the
\* selected records as one list
RecordLists ==
    LET records == SelectRecords(publications)
        keys == BlockOrder(records, <<>>)
    IN  {records} \cup {Block(records, keys[k]) : k \in DOMAIN keys}

\* C24: find_clusters returns a partition of the ids of its records, and two
\* records are in one returned set exactly when a chain of pairs that score at
\* least the threshold connects them.
Thm_C24 ==
    \A list \in RecordLists :
        LET clusters == find_clusters(list, rapidfuzz_available, similarity_threshold)
        IN  /\ UNION clusters = {r.id : r \in Range(list)}
            /\ \A c, d \in clusters : c # {} /\ (c # d => c \cap d = {})
            /\ \A a, b \in Range(list) :
                  (\E c \in clusters : {a.id, b.id} \subseteq c) <=> b \in Connected({a}, list)

\* C24 witness: deduplicate() has run on records of which three form a chain
\* whose ends are not linked, listed with the middle record first, and a
\* fourth record is in a cluster of its own.
Wit_C24 ==
    /\ deduplicated
    /\ LET records == SelectRecords(publications)
       IN  /\ \E p, q, n \in DOMAIN records :
                /\ p < q /\ p < n
                /\ Linked(records[p], records[q]) /\ Linked(records[p], records[n])
                /\ ~Linked(records[q], records[n])
           /\ \E r \in Range(records) : Connected({r}, records) = {r}

\* the candidate filter of find_duplicate_groups lets row idy through for row idx
Candidate(idx, idy) ==
    /\ idx # idy
    /\ df_year_bucket(df[idy]) = df_year_bucket(df[idx])
    /\ title_first(df[idy].title) = title_first(df[idx].title)

\* C27: two records with the same title-prefix key whose 5-year buckets are
\* equal or adjacent share a block of deduplicate(), and pass the candidate
\* filter of find_duplicate_groups.
CE_C27 ==
    /\ \A a, b \in Range(SelectRecords(publications)) :
          (/\ a.id # b.id
           /\ get_title_prefix(a.title_normalized) # <<>>
           /\ get_title_prefix(a.title_normalized) = get_title_prefix(b.title_normalized)
           /\ Abs(year_bucket(a) - year_bucket(b)) <= 5)
          => CoBlocked(a, b)
    /\ \A idx, idy \in DOMAIN df :
          (/\ idx # idy
           /\ title_first(df[idx].title) = title_first(df[idy].title)
           /\ Abs(df_year_bucket(df[idx]) - df_year_bucket(df[idy])) <= 1)
          => Candidate(idx, idy)

\* C30: after deduplicate() the accepted clusters are pairwise disjoint, every
\* record of a cluster has the smallest id of its cluster as canonical_id, and
\* the record a canonical_id names has itself as canonical_id.
Thm_C30 ==
    deduplicated =>
        LET all_clusters == Clusters(publications, rapidfuzz_available, similarity_threshold)
        IN  /\ \A c, d \in all_clusters : c # d => c \cap d = {}
            /\ \A c \in all_clusters : \A id \in c : publications[id].canonical_id = MinOf(c)
            /\ \A r \in Rows :
                  r.canonical_id # NULL =>
                      /\ r.canonical_id \in DOMAIN publications
                      /\ publications[r.canonical_id].canonical_id = r.canonical_id

\* C30 witness: deduplicate() has accepted two clusters and has met, in a later
\* block, a cluster that shares a record with a cluster accepted before.
Wit_C30 ==
    /\ deduplicated
    /\ LET records == SelectRecords(publications)
           keys == BlockOrder(records, <<>>)
           all_clusters == Clusters(publications, rapidfuzz_available, similarity_threshold)
       IN  /\ Cardinality(all_clusters) >= 2
           /\ \E k \in DOMAIN keys :
                \E c \in find_clusters(Block(records, keys[k]), rapidfuzz_available,
                                       similarity_threshold) :
                    /\ Cardinality(c) > 1
                    /\ c \cap UNION ProcessBlocks(SubSeq(keys, 1, k - 1), records,
                                                  rapidfuzz_available, similarity_threshold, {}) # {}

\* the candidate match_work takes as best: the first of the evaluated list
BestCandidate == Evaluate(matcher, docs, use_llm)[1]

\* the corroborating signals of a candidate: author match and year match
Signals(h) == (IF h.author_match THEN 1 ELSE 0) + (IF h.year_match THEN 1 ELSE 0)

\* C25: among the candidates with the highest title score, match_work takes as
\* best one with the most corroborating signals.
CE_C25 ==
    (called /\ docs # <<>>) =>
        \A k \in DOMAIN docs :
            docs[k].score = BestCandidate.score => Signals(docs[k]) <= Signals(BestCandidate)

\* the tier of candidate k of the call
TierOf(k) ==
    Confidence(matcher, docs[k].score, docs[k].author_match, docs[k].year_match, use_llm)

\* C29: when a candidate of the source record is of the high tier, match_work
\* returns an accepted match with a candidate of the high tier.
CE_C29 ==
    (called /\ \E k \in DOMAIN docs : TierOf(k) = "high") =>
        /\ result.is_match
        /\ result.ia_work \in DOMAIN docs
        /\ TierOf(result.ia_work) = "high"

\* the source records of the first n results, in processing order
Processed(n) == [k \in 1..n |-> results[k].bph_work]

\* C26: with a save callback, the batches saved so far are the results up to
\* the last save, in processing order and each once; every batch but the final
\* one has save_interval results; and when run_matching has returned, the
\* batches are all the results.
Thm_C26 ==
    has_callback =>
        /\ pc = "running" => Concat(saved) = Processed(last_save_idx)
        /\ pc = "done" => Concat(saved) = Processed(Len(results))
        /\ pc \in {"running", "done"} =>
              \A b \in DOMAIN saved :
                  /\ Len(saved[b]) \in 1..save_interval
                  /\ (b < Len(saved) \/ pc = "running") => Len(saved[b]) = save_interval

\* C26 witness: a run over three source records with save_interval 2 has
\* returned after a periodic save and a save of the remainder.
Wit_C26 ==
    /\ has_callback
    /\ pc = "done"
    /\ save_interval = 2
    /\ Len(results) = 3
    /\ saved = << <<1, 2>>, <<3>> >>

\* C28: find_matches reports found = false, with no match, for a source record
\* whose title normalizes to the empty string.
CE_C28 ==
    (found_matches # <<>> /\ normalize_title(bph_work.title) = <<>>)
        => (~found_matches[1].found /\ found_matches[1].matches = <<>>)

====
